---- MODULE Spec2Model ----
(***************************************************************************)
(* Translation resolution and caching (app/services/i18n_service.py):      *)
(* the I18nService cache, its lookup chain cache -> storage -> fallback    *)
(* language -> key, the category bulk fetch, cache administration, and the *)
(* Accept-Language negotiation.                                            *)
(*                                                                         *)
(* Strings that the code only compares are TLA+ strings.  A translation    *)
(* key is the sequence of its dot-separated segments ("ui.a" is            *)
(* <<"ui", "a">>), so that key.startswith(category + ".") is computed and  *)
(* not looked up.  A header is the sequence of its characters.             *)
(***************************************************************************)
EXTENDS Integers, Sequences, FiniteSets, TLC

\* ------------------------------------------------------------------ bounds
\* largest number of translation records in the persistent store
MaxRecords == 2
\* largest number of comma-separated language ranges in an Accept-Language header
MaxRanges == 3
\* number of threads that call into the service at the same time
MaxThreads == 2
\* largest number of get_i18n_service calls of one thread
MaxCalls == 2

\* ------------------------------------------------------- program constants
SUPPORTED_LANGUAGES == {"en", "zh", "es", "fr"}
DEFAULT_LANGUAGE == "zh"

\* Python's None as a language / category argument, and as a returned value
None == "<None>"
PyNone == <<"<None>">>

\* ------------------------------------------------------------ input sets
Keys == {<<"ui", "a">>, <<"ui", "b">>, <<"mod", "a">>}
CategoryArgs == {"ui", "mod"}
\* the (key, language_code) pairs a row of the translations table may carry:
\* every key in English, one key also in the default language and in "de", a
\* language the service does not support (the column is a free string)
StoredPairs == {<<k, "en">> : k \in Keys} \cup {<<<<"ui", "a">>, l>> : l \in {"zh", "de"}}
StoredLanguages == {p[2] : p \in StoredPairs}
\* (language_code, fallback_language) arguments of get_translation: unset,
\* empty, supported with and without rows, unsupported, explicit fallbacks
TranslationArgs == {<<None, None>>, <<"", None>>, <<"en", None>>, <<"fr", None>>, <<"de", None>>,
                    <<"fr", "zh">>, <<"en", "de">>, <<"zh", "zh">>}
LanguageArgs == {None, "en", "fr", "de"}
PreloadArgs == {None, "en", "de"}
ClearArgs == {None, "", "en", "de"}

\* the text stored for (key, language): distinct for distinct pairs, and
\* never equal to a key
StoredText(key, language_code) == <<"text", language_code>> \o key

\* get_category_from_key of the seeding script: the rows' category column
get_category_from_key(key) == IF Len(key) >= 2 THEN key[1] ELSE "general"

\* a row of the translations table
Translation(key, language_code) ==
    [key |-> key, language_code |-> language_code,
     value |-> StoredText(key, language_code), category |-> get_category_from_key(key)]

AllRows == {Translation(p[1], p[2]) : p \in StoredPairs}

\* UniqueConstraint('key', 'language_code')
UniqueKeyLanguage(rows) ==
    \A r1, r2 \in rows : (r1.key = r2.key /\ r1.language_code = r2.language_code) => r1 = r2

Tables == {rows \in SUBSET AllRows : Cardinality(rows) <= MaxRecords /\ UniqueKeyLanguage(rows)}

VARIABLES
    storage,       \* the rows of the translations table
    cache,         \* I18nService._cache: language -> (key -> value)
    cache_loaded,  \* I18nService._cache_loaded
    last,          \* the last call: its arguments, what it returned, the storage queries it issued
    accept_language,  \* the Accept-Language header of the request, as its characters
    detected,      \* what detect_language_from_header returned for it, None before the call
    default_language,  \* I18nMiddleware.default_language
    request,           \* the request: its 'lang' query parameter, its X-Language and Accept-Language headers
    request_language,  \* request.state.language, None before dispatch
    content_language,  \* the Content-Language header of the response, None before dispatch
    _i18n_service,     \* the module global _i18n_service: 0 is None, n > 0 the n-th I18nService made
    instances,         \* the I18nService objects made so far: whether a translation was cached in each
    caller,            \* per thread: where it is in get_i18n_service, and the reference it was returned
    worker,            \* per thread: the service call it is executing, its position and its locals
    open_sessions,     \* the database sessions the service has opened and not closed
    flask_request,     \* Flask: the request's 'lang' argument, whether it has an Accept-Language
                       \* header, what the Accept-Language parser makes of it, the session
                       \* the request arrived with, the row of the session's user
    session,           \* Flask: the session dictionary
    locale,            \* Flask: what get_locale_selector returned, None before the call
    response           \* the data of the API response, NoResponse before the endpoint ran

request_vars == <<default_language, request, request_language, content_language>>

singleton_vars == <<_i18n_service, instances, caller>>

locale_vars == <<flask_request, session, locale>>

vars == <<storage, cache, cache_loaded, last, accept_language, detected, request_vars,
          singleton_vars, worker, open_sessions, locale_vars, response>>

EmptyDict == [x \in {} |-> x]

\* dict[key] = value
DictPut(d, k, v) == [x \in (DOMAIN d) \cup {k} |-> IF x = k THEN v ELSE d[x]]

\* dict.pop(key, None)
DictPop(d, k) == [x \in (DOMAIN d) \ {k} |-> d[x]]

\* key.startswith(f"{category}.")
StartsWithCategory(key, category) == Len(key) >= 2 /\ key[1] = category

\* ----------------------------------------------------------- private methods
\* a cache keyed by the key alone: the value of the key under any cached language
_get_from_cache_any_language(c, key, language_code) ==
    IF \E l \in DOMAIN c : key \in DOMAIN c[l]
    THEN c[CHOOSE l \in DOMAIN c : key \in DOMAIN c[l]][key]
    ELSE PyNone

_get_from_cache(c, key, language_code) ==
    IF language_code \in DOMAIN c /\ key \in DOMAIN c[language_code]
    THEN c[language_code][key]
    ELSE PyNone

\* a _cache_translation that stores nothing
_cache_translation_dropped(c, key, language_code, value) == c

_cache_translation(c, key, language_code, value) ==
    LET c1 == IF language_code \notin DOMAIN c THEN DictPut(c, language_code, EmptyDict) ELSE c
    IN [c1 EXCEPT ![language_code] = DictPut(@, key, value)]

\* an _is_category_cached that takes any cached key of the language as proof
_is_category_cached_any_key(c, category, language_code) ==
    IF language_code \notin DOMAIN c
    THEN FALSE
    ELSE DOMAIN c[language_code] # {}

_is_category_cached(c, category, language_code) ==
    IF language_code \notin DOMAIN c
    THEN FALSE
    ELSE \E key \in DOMAIN c[language_code] : StartsWithCategory(key, category)

\* _load_translation_from_db without its except clause: the error leaves the method
_load_translation_from_db_no_except(key, language_code, db_error) ==
    IF db_error
    THEN [ret |-> PyNone, exc |-> TRUE]
    ELSE LET found == {r \in storage : r.key = key /\ r.language_code = language_code}
         IN IF found = {}
            THEN [ret |-> PyNone, exc |-> FALSE]
            ELSE [ret |-> (CHOOSE r \in found : TRUE).value, exc |-> FALSE]

\* a _load_translation_from_db that asks again after an error and gets the row
_load_translation_from_db_retried(key, language_code, db_error) ==
    LET found == {r \in storage : r.key = key /\ r.language_code = language_code}
    IN IF found = {}
       THEN [ret |-> PyNone, exc |-> FALSE]
       ELSE [ret |-> (CHOOSE r \in found : TRUE).value, exc |-> FALSE]

\* session.query(Translation).filter(key ==, language_code ==).first(); db_error
\* is the query (or the connection it needs) raising; the except clause turns
\* it into None.  ret is the returned value, exc says an exception left the method.
_load_translation_from_db(key, language_code, db_error) ==
    IF db_error
    THEN [ret |-> PyNone, exc |-> FALSE]
    ELSE LET found == {r \in storage : r.key = key /\ r.language_code = language_code}
         IN IF found = {}
            THEN [ret |-> PyNone, exc |-> FALSE]
            ELSE [ret |-> (CHOOSE r \in found : TRUE).value, exc |-> FALSE]

\* caching every row of a result set, one _cache_translation per row
RECURSIVE CacheRows(_, _, _)
CacheRows(c, rows, language_code) ==
    IF rows = {}
    THEN c
    ELSE LET r == CHOOSE x \in rows : TRUE
         IN CacheRows(_cache_translation(c, r.key, language_code, r.value), rows \ {r}, language_code)

_load_category_from_db(c, category, language_code, db_error) ==
    IF db_error
    THEN c
    ELSE CacheRows(c, {r \in storage : r.category = category /\ r.language_code = language_code},
                   language_code)

_load_all_translations_from_db(c, language_code, db_error) ==
    IF db_error
    THEN c
    ELSE CacheRows(c, {r \in storage : r.language_code = language_code}, language_code)

\* a storage query a call issued: what it asked for and whether it raised
Query(kind, what, language_code, db_error) ==
    <<kind, what, language_code, IF db_error THEN "error" ELSE "ok">>

\* ------------------------------------------------------------ get_translation
\* an unset language_code taken to be English
default_language_code_english(language_code_arg) ==
    IF language_code_arg = None THEN "en" ELSE language_code_arg

\* language_code = DEFAULT_LANGUAGE when the argument is None
default_language_code(language_code_arg) ==
    IF language_code_arg = None THEN DEFAULT_LANGUAGE ELSE language_code_arg

\* a default fallback that is always the service default
default_fallback_language_service_default(language_code, fallback_arg) ==
    IF fallback_arg = None THEN DEFAULT_LANGUAGE ELSE fallback_arg

\* fallback_language when the argument is None; language_code is not yet validated
default_fallback_language(language_code, fallback_arg) ==
    IF fallback_arg = None
    THEN (IF language_code # "en" THEN "en" ELSE DEFAULT_LANGUAGE)
    ELSE fallback_arg

\* no validation: an unsupported code is looked up as it is
validate_language_code_skipped(language_code) == language_code

\* "Validate language code"
validate_language_code(language_code) ==
    IF language_code \notin SUPPORTED_LANGUAGES THEN DEFAULT_LANGUAGE ELSE language_code

\* a fallback hit cached under the language that was asked for
fallback_cache_language_requested(language_code, fallback_language) == language_code

\* the language a fallback hit is cached under
fallback_cache_language(language_code, fallback_language) == fallback_language

\* the whole method: the value it returns, where it found it, the cache it
\* leaves, the queries it issued and whether an exception escaped
get_translation(c, key, language_code_arg, fallback_arg, err1, err2) ==
    LET lc0 == default_language_code(language_code_arg)
        fallback_language == default_fallback_language(lc0, fallback_arg)
        language_code == validate_language_code(lc0)
        cached == _get_from_cache(c, key, language_code)
        q1 == Query("one", key, language_code, err1)
        q2 == Query("one", key, fallback_language, err2)
        loaded == _load_translation_from_db(key, language_code, err1)
        fb_cached == _get_from_cache(c, key, fallback_language)
        fb_loaded == _load_translation_from_db(key, fallback_language, err2)
    IN  IF cached # PyNone
        THEN [result |-> cached, source |-> "cache", cache |-> c,
              queries |-> <<>>, raised |-> FALSE]
        ELSE IF loaded.exc
        THEN [result |-> PyNone, source |-> "exception", cache |-> c,
              queries |-> <<q1>>, raised |-> TRUE]
        ELSE IF loaded.ret # PyNone
        THEN [result |-> loaded.ret, source |-> "storage",
              cache |-> _cache_translation(c, key, language_code, loaded.ret),
              queries |-> <<q1>>, raised |-> FALSE]
        ELSE IF fallback_language # language_code
        THEN IF fb_cached # PyNone
             THEN [result |-> fb_cached, source |-> "fallback cache", cache |-> c,
                   queries |-> <<q1>>, raised |-> FALSE]
             ELSE IF fb_loaded.exc
             THEN [result |-> PyNone, source |-> "exception", cache |-> c,
                   queries |-> <<q1, q2>>, raised |-> TRUE]
             ELSE IF fb_loaded.ret # PyNone
             THEN [result |-> fb_loaded.ret, source |-> "fallback storage",
                   cache |-> _cache_translation(c, key,
                                       fallback_cache_language(language_code, fallback_language),
                                       fb_loaded.ret),
                   queries |-> <<q1, q2>>, raised |-> FALSE]
             ELSE [result |-> key, source |-> "key", cache |-> c,
                   queries |-> <<q1, q2>>, raised |-> FALSE]
        ELSE [result |-> key, source |-> "key", cache |-> c,
              queries |-> <<q1>>, raised |-> FALSE]

\* -------------------------------------------------- get_translations_by_category
get_translations_by_category(c, category, language_code_arg, db_error) ==
    LET language_code == validate_language_code(default_language_code(language_code_arg))
        is_cached == _is_category_cached(c, category, language_code)
        c1 == IF ~is_cached THEN _load_category_from_db(c, category, language_code, db_error) ELSE c
        of_language == IF language_code \in DOMAIN c1 THEN c1[language_code] ELSE EmptyDict
    IN  [result |-> [key \in {k \in DOMAIN of_language : StartsWithCategory(k, category)}
                        |-> of_language[key]],
         cache |-> c1,
         queries |-> IF ~is_cached THEN <<Query("category", category, language_code, db_error)>>
                     ELSE <<>>,
         raised |-> FALSE]

\* ------------------------------------------------------------ preload_translations
\* one pass of the loop body for each language to load; failing is the set of
\* languages whose query raises
RECURSIVE PreloadLoop(_, _, _, _)
PreloadLoop(c, loaded, languages_to_load, failing) ==
    IF languages_to_load = {}
    THEN [cache |-> c, cache_loaded |-> loaded, queries |-> {}]
    ELSE LET lang == CHOOSE l \in languages_to_load : TRUE
             rest == languages_to_load \ {lang}
         IN IF lang \notin SUPPORTED_LANGUAGES \/ lang \in loaded
            THEN PreloadLoop(c, loaded, rest, failing)
            ELSE LET r == PreloadLoop(_load_all_translations_from_db(c, lang, lang \in failing),
                                      loaded \cup {lang}, rest, failing)
                 IN [r EXCEPT !.queries = @ \cup {Query("all", None, lang, lang \in failing)}]

preload_translations(c, loaded, language_code_arg, failing) ==
    PreloadLoop(c, loaded,
                IF language_code_arg # None /\ language_code_arg # ""
                THEN {language_code_arg} ELSE SUPPORTED_LANGUAGES,
                failing)

\* ------------------------------------------------------------------ clear_cache
\* a clear_cache that forgets the preloaded marks and keeps the entries
clear_cache_marks_only(c, loaded, language_code_arg) ==
    IF language_code_arg # None /\ language_code_arg # ""
    THEN [cache |-> c, cache_loaded |-> loaded \ {language_code_arg}]
    ELSE [cache |-> c, cache_loaded |-> {}]

\* a clear_cache that empties everything whatever its argument
clear_cache_everything(c, loaded, language_code_arg) ==
    [cache |-> EmptyDict, cache_loaded |-> {}]

\* a clear_cache(language) that empties the language's map and leaves it in place
clear_cache_emptied(c, loaded, language_code_arg) ==
    IF language_code_arg # None /\ language_code_arg # ""
    THEN [cache |-> IF language_code_arg \in DOMAIN c
                    THEN [c EXCEPT ![language_code_arg] = EmptyDict] ELSE c,
          cache_loaded |-> loaded \ {language_code_arg}]
    ELSE [cache |-> EmptyDict, cache_loaded |-> {}]

clear_cache(c, loaded, language_code_arg) ==
    IF language_code_arg # None /\ language_code_arg # ""
    THEN [cache |-> DictPop(c, language_code_arg), cache_loaded |-> loaded \ {language_code_arg}]
    ELSE [cache |-> EmptyDict, cache_loaded |-> {}]

\* ---------------------------------------------------------------- get_cache_stats
\* sum(len(translations) for translations in self._cache.values())
RECURSIVE total_translations(_, _)
total_translations(c, languages) ==
    IF languages = {} THEN 0
    ELSE LET l == CHOOSE x \in languages : TRUE
         IN Cardinality(DOMAIN c[l]) + total_translations(c, languages \ {l})

\* statistics that count the supported languages, not the cached ones
get_cache_stats_supported(c, loaded) ==
    [cached_languages |-> Cardinality(SUPPORTED_LANGUAGES),
     total_cached_translations |-> total_translations(c, DOMAIN c),
     preloaded_languages |-> Cardinality(loaded)]

get_cache_stats(c, loaded) ==
    [cached_languages |-> Cardinality(DOMAIN c),
     total_cached_translations |-> total_translations(c, DOMAIN c),
     preloaded_languages |-> Cardinality(loaded)]

NoStats == [cached_languages |-> 0, total_cached_translations |-> 0, preloaded_languages |-> 0]

\* what is kept of a call.  For get_translation: before says, when the call
\* just before it was get_translation with the same arguments, whether that
\* call found the key in the requested language ("language") or not
\* ("elsewhere"), and is "" otherwise; same_as_before whether both returned the
\* same value; after_clear whether the call just before was clear_cache of the
\* same language argument and removed this key.  For clear_cache: removed is
\* the set of keys it dropped.  For get_cache_stats: stats is the dictionary
\* returned.  For detect_language_from_header: header is its argument and
\* returned_language what it returned.  opened and closed count the database
\* sessions the call opened and closed.
NoCall == [op |-> "init", key |-> <<>>, category |-> None, language |-> None, fallback |-> None,
           result |-> PyNone, source |-> "", queries |-> <<>>, raised |-> FALSE,
           before |-> "", same_as_before |-> FALSE,
           after_clear |-> FALSE, removed |-> {},
           stats |-> NoStats, header |-> <<>>, returned_language |-> None,
           opened |-> 0, closed |-> 0]

\* some query of the call raised
Failed(queries) == \E i \in 1..Len(queries) : queries[i][4] = "error"

\* the rows a query asks for
Matching(q) ==
    {r \in storage : /\ r.language_code = q[3]
                     /\ (q[1] = "one" => r.key = q[2])
                     /\ (q[1] = "category" => r.category = q[2])}

\* whether the n-th storage query of a call raises.  Only a query that is
\* issued can raise; a query that matches no row returns nothing whether it
\* raises or not (the except clauses return what an empty result returns), so
\* only the failures of queries that match a row are told apart.
QueryOutcomes(queries, n) ==
    IF Len(queries) >= n /\ Matching(queries[n]) # {} THEN BOOLEAN ELSE {FALSE}

\* no request is being served
EmptyRequest == [lang |-> None, x_language |-> None, accept_language |-> PyNone]

NoRequest ==
    /\ default_language = DEFAULT_LANGUAGE
    /\ request = EmptyRequest
    /\ request_language = None
    /\ content_language = None

Threads == 1..MaxThreads

\* _i18n_service = None
NoInstance == 0

\* a thread that is not inside get_i18n_service and holds no reference
NotCalling == [pc |-> "idle", made |-> NoInstance, ref |-> NoInstance, calls |-> 0]

\* the module is imported and nobody has called get_i18n_service
NoCaller ==
    /\ _i18n_service = NoInstance
    /\ instances = <<>>
    /\ caller = [t \in Threads |-> NotCalling]

\* a dict iterator that is exhausted
NoIter == [live |-> FALSE, language |-> None, used |-> 0, rest |-> <<>>]

\* a thread that is in no call of the service
IdleWorker ==
    [pc |-> "idle", op |-> "", calls |-> 0, outcome |-> "",
     key |-> <<>>, language |-> None, fallback |-> None, category |-> None,
     ckey |-> <<>>, value |-> PyNone, target |-> None, rows |-> <<>>, todo |-> <<>>,
     it |-> NoIter, result |-> EmptyDict]

NoWorker == worker = [t \in Threads |-> IdleWorker]

\* no Flask request is being served: no arguments, headers, session or user
NoFlaskRequest ==
    /\ flask_request =
         [lang |-> None, has_accept_language |-> FALSE, parsed |-> None, session |-> EmptyDict,
          user |-> [exists |-> FALSE, preferred_language |-> None, error |-> FALSE]]
    /\ session = EmptyDict
    /\ locale = None

\* no response yet
NoResponse ==
    [endpoint |-> "", key |-> <<>>, value |-> PyNone, language |-> None, found |-> FALSE,
     fallback |-> PyNone, current_language |-> None, detection_method |-> ""]

\* the rows the queries of a call returned: what its sessions hold
RowsRead(queries) == UNION {Matching(q) : q \in {x \in queries : x[4] = "ok"}}

\* the queries of a call, as a set
QuerySet(queries) == {queries[i] : i \in 1..Len(queries)}

\* a session.close() at the end of the try block: skipped when the query raises
session_closed_unless_raised(db_error) == ~db_error

\* finally: session.close() runs whether the query returned or raised
session_closed(db_error) == TRUE

\* session = SessionLocal(): each loader opens one session for its one query
sessions_opened(queries) == Cardinality(queries)

\* the sessions of a call that its loaders closed
sessions_closed(queries) == Cardinality({q \in queries : session_closed(q[4] = "error")})

\* a session that deletes the rows it loaded when it is closed
session_close_deleting(table, read) == table \ read

\* finally: session.close().  The sessions only query: nothing is added,
\* changed, deleted or committed, so closing leaves the table as it was.
session_close(table, read) == table

\* ---------------------------------------------------------------------------
\* detect_language_from_header
\* ---------------------------------------------------------------------------
\* the language ranges the headers are made of
\*   "en"  "fr;q=0.8"  "en;q=0.9"  "zh;q=1.0"  "zh;q=0.5"  "de"  " ES-mx;q=0.5"
\*   "fr;q=abc"  "es;q"  "en;q=nan"
RangePool ==
    { <<"e", "n">>,
      <<"f", "r", ";", "q", "=", "0", ".", "8">>,
      <<"e", "n", ";", "q", "=", "0", ".", "9">>,
      <<"z", "h", ";", "q", "=", "1", ".", "0">>,
      <<"z", "h", ";", "q", "=", "0", ".", "5">>,
      <<"d", "e">>,
      <<" ", "E", "S", "-", "m", "x", ";", "q", "=", "0", ".", "5">>,
      <<"f", "r", ";", "q", "=", "a", "b", "c">>,
      <<"e", "s", ";", "q">>,
      <<"e", "n", ";", "q", "=", "n", "a", "n">> }

\* ",".join(ranges)
RECURSIVE JoinRanges(_)
JoinRanges(ranges) ==
    IF ranges = <<>> THEN <<>>
    ELSE IF Len(ranges) = 1 THEN ranges[1]
    ELSE ranges[1] \o <<",">> \o JoinRanges(Tail(ranges))

\* the headers of at most MaxRanges ranges; the empty header is among them
Headers ==
    {JoinRanges(ranges) : ranges \in UNION {[1..n -> RangePool] : n \in 0..MaxRanges}}

\* the headers of at most one range
OneRangeHeaders ==
    {JoinRanges(ranges) : ranges \in UNION {[1..n -> RangePool] : n \in 0..1}}

\* the headers detect_language_from_header is called with between the other
\* operations of the service: "", "de", "fr;q=0.8"
DetectArgs == {<<>>, <<"d", "e">>, <<"f", "r", ";", "q", "=", "0", ".", "8">>}

\* str.strip()
RECURSIVE LStrip(_)
LStrip(str) == IF str # <<>> /\ Head(str) = " " THEN LStrip(Tail(str)) ELSE str

RECURSIVE RStrip(_)
RStrip(str) ==
    IF str # <<>> /\ str[Len(str)] = " " THEN RStrip(SubSeq(str, 1, Len(str) - 1)) ELSE str

Strip(str) == RStrip(LStrip(str))

\* str.find(ch) + 1: the place of the first ch, 0 when there is none
Find(str, ch) ==
    IF \E i \in 1..Len(str) : str[i] = ch
    THEN CHOOSE i \in 1..Len(str) : str[i] = ch /\ \A j \in 1..(i - 1) : str[j] # ch
    ELSE 0

\* str.split(ch)
RECURSIVE Split(_, _)
Split(str, ch) ==
    LET i == Find(str, ch)
    IN IF i = 0
       THEN <<str>>
       ELSE <<SubSeq(str, 1, i - 1)>> \o Split(SubSeq(str, i + 1, Len(str)), ch)

\* str.split(ch, 1)
SplitOnce(str, ch) ==
    LET i == Find(str, ch)
    IN IF i = 0 THEN <<str>> ELSE <<SubSeq(str, 1, i - 1), SubSeq(str, i + 1, Len(str))>>

UpperCase == <<"A", "B", "C", "D", "E", "F", "G", "H", "I", "J", "K", "L", "M",
               "N", "O", "P", "Q", "R", "S", "T", "U", "V", "W", "X", "Y", "Z">>
LowerCase == <<"a", "b", "c", "d", "e", "f", "g", "h", "i", "j", "k", "l", "m",
               "n", "o", "p", "q", "r", "s", "t", "u", "v", "w", "x", "y", "z">>

\* str.lower()
Lower(str) ==
    [i \in 1..Len(str) |->
        IF \E k \in 1..Len(UpperCase) : UpperCase[k] = str[i]
        THEN LowerCase[CHOOSE k \in 1..Len(UpperCase) : UpperCase[k] = str[i]]
        ELSE str[i]]

\* the characters as one string
RECURSIVE AsString(_)
AsString(str) == IF str = <<>> THEN "" ELSE Head(str) \o AsString(Tail(str))

DecimalDigits == <<"0", "1", "2", "3", "4", "5", "6", "7", "8", "9">>
IsDigit(ch) == \E d \in 1..Len(DecimalDigits) : DecimalDigits[d] = ch
DigitValue(ch) == (CHOOSE d \in 1..Len(DecimalDigits) : DecimalDigits[d] = ch) - 1

\* the number a run of digits writes
RECURSIVE DigitsValue(_)
DigitsValue(digits) ==
    IF digits = <<>> THEN 0
    ELSE 10 * DigitsValue(SubSeq(digits, 1, Len(digits) - 1)) + DigitValue(digits[Len(digits)])

\* a float: not-a-number, or a number kept in thousandths
NaN == [nan |-> TRUE, v |-> 0]
Number(thousandths) == [nan |-> FALSE, v |-> thousandths]

\* quality = 1.0
DefaultQuality == 1000

\* the thousandths a fraction's digits write (its first three digits)
FractionValue(digits) ==
    LET d3 == SubSeq(digits \o <<"0", "0", "0">>, 1, 3) IN DigitsValue(d3)

\* float(str): the decimal forms [sign] digits [. digits] and [sign] . digits,
\* and nan; every other text is a ValueError here (exponents, inf and
\* underscores, which float also reads, are in no header of the model).
\* ok says no ValueError was raised.
float(str) ==
    LET t == Strip(str)
        signed == t # <<>> /\ Head(t) \in {"+", "-"}
        body == IF signed THEN Tail(t) ELSE t
        sign == IF signed /\ Head(t) = "-" THEN -1 ELSE 1
        parts == Split(body, ".")
        whole == parts[1]
        fraction == IF Len(parts) = 2 THEN parts[2] ELSE <<>>
        digits_only == \A i \in 1..Len(whole \o fraction) : IsDigit((whole \o fraction)[i])
    IN  IF Lower(body) = <<"n", "a", "n">>
        THEN [ok |-> TRUE, value |-> NaN]
        ELSE IF Len(parts) <= 2 /\ digits_only /\ whole \o fraction # <<>>
        THEN [ok |-> TRUE,
              value |-> Number(sign * (DefaultQuality * DigitsValue(whole) + FractionValue(fraction)))]
        ELSE [ok |-> FALSE, value |-> NaN]

\* a < b on floats: false whenever one of them is not a number
FloatLess(a, b) == ~a.nan /\ ~b.nan /\ a.v < b.v

\* try: quality = float(quality.split('=')[1])
\* except (ValueError, IndexError): quality = 1.0
parse_quality(quality) ==
    LET fields == Split(quality, "=")
    IN IF Len(fields) < 2
       THEN Number(DefaultQuality)
       ELSE IF float(fields[2]).ok THEN float(fields[2]).value ELSE Number(DefaultQuality)

\* lang.strip().lower().split('-')[0]
language_code_of(lang) == AsString(Split(Lower(Strip(lang)), "-")[1])

\* one turn of the parsing loop: the (lang_code, quality) of a language range
parse_range(lang_range_raw) ==
    LET lang_range == Strip(lang_range_raw)
        fields == SplitOnce(lang_range, ";")
    IN IF Len(fields) = 2
       THEN <<language_code_of(fields[1]), parse_quality(fields[2])>>
       ELSE <<language_code_of(lang_range), Number(DefaultQuality)>>

\* a filter that keeps every language code
is_supported_code_any(lang_code) == TRUE

\* if lang_code in self.SUPPORTED_LANGUAGES
is_supported_code(lang_code) == lang_code \in SUPPORTED_LANGUAGES

\* the parsing loop: the supported ranges of the header, in header order
RECURSIVE parse_ranges(_)
parse_ranges(ranges) ==
    IF ranges = <<>> THEN <<>>
    ELSE LET entry == parse_range(Head(ranges))
         IN (IF is_supported_code(entry[1]) THEN <<entry>> ELSE <<>>) \o parse_ranges(Tail(ranges))

\* list.reverse()
Reverse(list) == [i \in 1..Len(list) |-> list[Len(list) + 1 - i]]

\* key=lambda x: x[1]
SortKey(entry) == entry[2]

\* count_run of list.sort: the length of the run the list starts with, and
\* whether it is strictly descending
RECURSIVE RunLength(_, _, _)
RunLength(list, n, descending) ==
    IF n >= Len(list) THEN n
    ELSE IF FloatLess(SortKey(list[n + 1]), SortKey(list[n])) = descending
    THEN RunLength(list, n + 1, descending)
    ELSE n

\* binarysort of list.sort: where the pivot goes among list[l+1 .. r]
RECURSIVE InsertionPoint(_, _, _, _)
InsertionPoint(list, pivot, l, r) ==
    IF l >= r THEN l
    ELSE LET p == l + ((r - l) \div 2)
         IN IF FloatLess(SortKey(pivot), SortKey(list[p + 1]))
            THEN InsertionPoint(list, pivot, l, p)
            ELSE InsertionPoint(list, pivot, p + 1, r)

\* binarysort of list.sort: list[1..start] is sorted, insert the others one by one
RECURSIVE BinarySort(_, _)
BinarySort(list, start) ==
    IF start >= Len(list) THEN list
    ELSE LET pivot == list[start + 1]
             l == InsertionPoint(list, pivot, 0, start)
         IN BinarySort(SubSeq(list, 1, l) \o <<pivot>> \o SubSeq(list, l + 1, start)
                         \o SubSeq(list, start + 2, Len(list)),
                       start + 1)

\* list.sort(key=..., reverse=True) of a list shorter than 64: the list is
\* reversed, its first run is found (and reversed when descending), the other
\* elements are inserted by binary search, and the result is reversed.  The
\* only test on the keys is <.
sort_reverse(list) ==
    IF Len(list) < 2 THEN list
    ELSE LET rev == Reverse(list)
             descending == FloatLess(SortKey(rev[2]), SortKey(rev[1]))
             n == RunLength(rev, 2, descending)
             run == IF descending
                    THEN Reverse(SubSeq(rev, 1, n)) \o SubSeq(rev, n + 1, Len(rev))
                    ELSE rev
         IN Reverse(BinarySort(run, n))

\* the whole method
detect_language_from_header(header) ==
    IF header = <<>>
    THEN DEFAULT_LANGUAGE
    ELSE LET languages == parse_ranges(Split(header, ","))
         IN IF languages = <<>>
            THEN DEFAULT_LANGUAGE
            ELSE sort_reverse(languages)[1][1]

\* ---------------------------------------------------------------------------
\* the service called operation after operation
\* ---------------------------------------------------------------------------
Init ==
    /\ storage \in Tables
    /\ cache = EmptyDict
    /\ cache_loaded = {}
    /\ last = NoCall
    /\ accept_language = <<>>
    /\ detected = None
    /\ NoRequest
    /\ NoCaller
    /\ NoWorker
    /\ open_sessions = 0
    /\ NoFlaskRequest
    /\ response = NoResponse

GetTranslation ==
    \E key \in Keys, args \in TranslationArgs :
      LET issued == get_translation(cache, key, args[1], args[2], TRUE, TRUE).queries IN
      \E err1 \in QueryOutcomes(issued, 1), err2 \in QueryOutcomes(issued, 2) :
        LET language_code == args[1]
            fallback_language == args[2]
            r == get_translation(cache, key, language_code, fallback_language, err1, err2)
            repeat == /\ last.op = "get_translation" /\ last.key = key
                      /\ last.language = language_code /\ last.fallback = fallback_language
        IN  /\ cache' = r.cache
            /\ last' = [NoCall EXCEPT
                          !.op = "get_translation", !.key = key, !.language = language_code,
                          !.fallback = fallback_language,
                          !.result = r.result, !.source = r.source,
                          !.queries = r.queries, !.raised = r.raised,
                          !.before = IF ~repeat THEN ""
                                     ELSE IF last.source \in {"cache", "storage"} THEN "language"
                                     ELSE "elsewhere",
                          !.same_as_before = (repeat /\ last.result = r.result),
                          !.after_clear = (last.op = "clear_cache" /\ last.language = language_code
                                           /\ key \in last.removed),
                          !.opened = sessions_opened(QuerySet(r.queries)),
                          !.closed = sessions_closed(QuerySet(r.queries))]
            /\ storage' = session_close(storage, RowsRead(QuerySet(r.queries)))
            /\ open_sessions' = open_sessions + sessions_opened(QuerySet(r.queries))
                                              - sessions_closed(QuerySet(r.queries))
            /\ UNCHANGED <<cache_loaded, accept_language, detected, request_vars, singleton_vars,
                           worker, locale_vars, response>>

GetTranslationsByCategory ==
    \E category \in CategoryArgs, language_code \in LanguageArgs :
      \E db_error \in QueryOutcomes(
                        get_translations_by_category(cache, category, language_code, TRUE).queries, 1) :
        LET r == get_translations_by_category(cache, category, language_code, db_error)
        IN  /\ cache' = r.cache
            /\ last' = [NoCall EXCEPT
                          !.op = "get_translations_by_category", !.category = category,
                          !.language = language_code,
                          !.result = r.result, !.queries = r.queries, !.raised = r.raised,
                          !.opened = sessions_opened(QuerySet(r.queries)),
                          !.closed = sessions_closed(QuerySet(r.queries))]
            /\ storage' = session_close(storage, RowsRead(QuerySet(r.queries)))
            /\ open_sessions' = open_sessions + sessions_opened(QuerySet(r.queries))
                                              - sessions_closed(QuerySet(r.queries))
            /\ UNCHANGED <<cache_loaded, accept_language, detected, request_vars, singleton_vars,
                           worker, locale_vars, response>>

PreloadTranslations ==
    \E language_code \in PreloadArgs :
      \E failing \in SUBSET {q[3] : q \in {x \in preload_translations(cache, cache_loaded,
                                                  language_code, {}).queries : Matching(x) # {}}} :
        LET r == preload_translations(cache, cache_loaded, language_code, failing)
        IN  /\ cache' = r.cache
            /\ cache_loaded' = r.cache_loaded
            /\ last' = [NoCall EXCEPT !.op = "preload_translations", !.language = language_code,
                                       !.opened = sessions_opened(r.queries),
                                       !.closed = sessions_closed(r.queries)]
            /\ storage' = session_close(storage, RowsRead(r.queries))
            /\ open_sessions' = open_sessions + sessions_opened(r.queries) - sessions_closed(r.queries)
            /\ UNCHANGED <<accept_language, detected, request_vars, singleton_vars, worker,
                           locale_vars, response>>

ClearCache ==
    \E language_code \in ClearArgs :
        LET r == clear_cache(cache, cache_loaded, language_code)
        IN  /\ cache' = r.cache
            /\ cache_loaded' = r.cache_loaded
            /\ last' = [NoCall EXCEPT
                          !.op = "clear_cache", !.language = language_code,
                          !.removed = IF language_code \in DOMAIN cache
                                      THEN DOMAIN cache[language_code] ELSE {}]
            /\ UNCHANGED <<storage, accept_language, detected, request_vars, singleton_vars, worker, open_sessions, locale_vars, response>>

GetCacheStats ==
    /\ last' = [NoCall EXCEPT !.op = "get_cache_stats",
                               !.stats = get_cache_stats(cache, cache_loaded)]
    /\ UNCHANGED <<storage, cache, cache_loaded, accept_language, detected, request_vars,
                   singleton_vars, worker, open_sessions, locale_vars, response>>

\* detect_language_from_header called between the other operations of the service
DetectLanguage ==
    \E header \in DetectArgs :
        /\ last' = [NoCall EXCEPT !.op = "detect_language_from_header", !.header = header,
                                   !.returned_language = detect_language_from_header(header)]
        /\ UNCHANGED <<storage, cache, cache_loaded, accept_language, detected, request_vars,
                       singleton_vars, worker, open_sessions, locale_vars, response>>

Next ==
    \/ GetTranslation
    \/ GetTranslationsByCategory
    \/ PreloadTranslations
    \/ ClearCache
    \/ GetCacheStats
    \/ DetectLanguage

Spec == Init /\ [][Next]_vars

\* ---------------------------------------------------------------------------
\* detect_language_from_header called once on a header
\* ---------------------------------------------------------------------------
InitDetect ==
    /\ storage = {}
    /\ cache = EmptyDict
    /\ cache_loaded = {}
    /\ last = NoCall
    /\ accept_language \in Headers
    /\ detected = None
    /\ NoRequest
    /\ NoCaller
    /\ NoWorker
    /\ open_sessions = 0
    /\ NoFlaskRequest
    /\ response = NoResponse

DetectLanguageFromHeader ==
    /\ detected = None
    /\ detected' = detect_language_from_header(accept_language)
    /\ UNCHANGED <<storage, cache, cache_loaded, last, accept_language, request_vars,
                   singleton_vars, worker, open_sessions, locale_vars, response>>

NextDetect == DetectLanguageFromHeader

SpecDetect == InitDetect /\ [][NextDetect]_vars

\* ---------------------------------------------------------------------------
\* I18nMiddleware (app/core/i18n_middleware.py)
\* ---------------------------------------------------------------------------
\* the values of the 'lang' query parameter and of the X-Language header:
\* absent, empty, supported, unsupported
LangValues == {None, "", "en", "fr", "zh", "de"}

\* the Accept-Language headers of the requests: absent, empty, one language range
RequestHeaders == {PyNone} \cup OneRangeHeaders

\* the default_language the middleware is constructed with ("zh" when not given)
MiddlewareDefaults == {"zh", "en"}

Requests == [lang : LangValues, x_language : LangValues, accept_language : RequestHeaders]

\* an is_language_supported that accepts every code
is_language_supported_any(language_code) == TRUE

is_language_supported(language_code) == language_code \in SUPPORTED_LANGUAGES

\* the truth value of an optional string: None and "" are false
Truthy(str) == str # None /\ str # ""

_detect_request_language(req, default) ==
    LET lang_param == req.lang
        lang_header == req.x_language
        header == req.accept_language
    IN  IF Truthy(lang_param) /\ is_language_supported(lang_param)
        THEN lang_param
        ELSE IF Truthy(lang_header) /\ is_language_supported(lang_header)
        THEN lang_header
        ELSE IF header # PyNone /\ header # <<>>
                /\ detect_language_from_header(header) # default
        THEN detect_language_from_header(header)
        ELSE default

InitRequest ==
    /\ storage = {}
    /\ cache = EmptyDict
    /\ cache_loaded = {}
    /\ last = NoCall
    /\ accept_language = <<>>
    /\ detected = None
    /\ default_language \in MiddlewareDefaults
    /\ request \in Requests
    /\ request_language = None
    /\ content_language = None
    /\ NoCaller
    /\ NoWorker
    /\ open_sessions = 0
    /\ NoFlaskRequest
    /\ response = NoResponse

\* dispatch: the language is detected, kept in request.state and written to
\* the response's Content-Language header
Dispatch ==
    /\ request_language = None
    /\ LET detected_language == _detect_request_language(request, default_language)
       IN /\ request_language' = detected_language
          /\ content_language' = detected_language
    /\ UNCHANGED <<storage, cache, cache_loaded, last, accept_language, detected,
                   default_language, request, singleton_vars, worker, open_sessions, locale_vars, response>>

NextRequest == Dispatch

SpecRequest == InitRequest /\ [][NextRequest]_vars

\* ---------------------------------------------------------------------------
\* get_i18n_service: the module-level instance, called from several threads
\* ---------------------------------------------------------------------------
InitSingleton ==
    /\ storage = {}
    /\ cache = EmptyDict
    /\ cache_loaded = {}
    /\ last = NoCall
    /\ accept_language = <<>>
    /\ detected = None
    /\ NoRequest
    /\ NoCaller
    /\ NoWorker
    /\ open_sessions = 0
    /\ NoFlaskRequest
    /\ response = NoResponse

service_idle == <<storage, cache, cache_loaded, last, accept_language, detected, request_vars,
                  worker, open_sessions, locale_vars, response>>

\* a thread enters get_i18n_service
CallGetI18nService(t) ==
    /\ caller[t].pc = "idle"
    /\ caller[t].calls < MaxCalls
    /\ caller' = [caller EXCEPT ![t].pc = "check", ![t].calls = @ + 1]
    /\ UNCHANGED <<_i18n_service, instances, service_idle>>

\* if _i18n_service is None:
CheckIsNone(t) ==
    /\ caller[t].pc = "check"
    /\ caller' = [caller EXCEPT ![t].pc = IF _i18n_service = NoInstance THEN "construct" ELSE "return"]
    /\ UNCHANGED <<_i18n_service, instances, service_idle>>

\* I18nService(): a new object with an empty cache
Construct(t) ==
    /\ caller[t].pc = "construct"
    /\ instances' = Append(instances, FALSE)
    /\ caller' = [caller EXCEPT ![t].pc = "store", ![t].made = Len(instances) + 1]
    /\ UNCHANGED <<_i18n_service, service_idle>>

\* _i18n_service = <the new object>
StoreGlobal(t) ==
    /\ caller[t].pc = "store"
    /\ _i18n_service' = caller[t].made
    /\ caller' = [caller EXCEPT ![t].pc = "return", ![t].made = NoInstance]
    /\ UNCHANGED <<instances, service_idle>>

\* return _i18n_service
ReturnGlobal(t) ==
    /\ caller[t].pc = "return"
    /\ caller' = [caller EXCEPT ![t].pc = "idle", ![t].ref = _i18n_service]
    /\ UNCHANGED <<_i18n_service, instances, service_idle>>

\* the thread caches a translation through the reference it was returned
CacheThroughReference(t) ==
    /\ caller[t].pc = "idle"
    /\ caller[t].ref # NoInstance
    /\ ~instances[caller[t].ref]
    /\ instances' = [instances EXCEPT ![caller[t].ref] = TRUE]
    /\ UNCHANGED <<_i18n_service, caller, service_idle>>

NextSingleton ==
    \E t \in Threads :
        \/ CallGetI18nService(t)
        \/ CheckIsNone(t)
        \/ Construct(t)
        \/ StoreGlobal(t)
        \/ ReturnGlobal(t)
        \/ CacheThroughReference(t)

SpecSingleton == InitSingleton /\ [][NextSingleton]_vars

\* ---------------------------------------------------------------------------
\* the service called from several threads at once.  The cache has no lock; a
\* thread may be preempted between any two accesses to self._cache and
\* self._cache_loaded, so each access is a step of its own.  The queries of
\* this part do not fail.
\* ---------------------------------------------------------------------------
ThreadKeys == {<<"ui", "a">>, <<"mod", "a">>}
ThreadTable == {Translation(k, "en") : k \in ThreadKeys}
ThreadTranslationArgs == {<<"en", None>>, <<"fr", None>>}
ThreadCategoryArgs == {<<"ui", "en">>}
ThreadPreloadArgs == {"en", "de"}
ThreadClearArgs == {None, "en"}

\* the elements of a set one after the other (the order a result set or a
\* dict hands them out in; which order it is changes no outcome here)
RECURSIVE SeqOf(_)
SeqOf(set) ==
    IF set = {} THEN <<>>
    ELSE LET x == CHOOSE y \in set : TRUE IN <<x>> \o SeqOf(set \ {x})

\* dict.items()
Items(d) == SeqOf({<<k, d[k]>> : k \in DOMAIN d})

\* iter() over self._cache.get(language_code, {}): the iterator remembers the
\* size of the dict; live says the dict is still the one in self._cache
NewIter(c, language_code) ==
    IF language_code \in DOMAIN c
    THEN [live |-> TRUE, language |-> language_code,
          used |-> Cardinality(DOMAIN c[language_code]), rest |-> Items(c[language_code])]
    ELSE NoIter

\* the dicts of these languages leave self._cache: the iterators over them go
\* on over what they held, and no thread can change them any more
Detach(w, languages) ==
    [t \in Threads |->
        IF w[t].it.live /\ w[t].it.language \in languages
        THEN [w[t] EXCEPT !.it.live = FALSE]
        ELSE w[t]]

\* next() on a dict iterator raises RuntimeError("dictionary changed size
\* during iteration") when the dict's size is not the remembered one
SizeChanged(it) == it.live /\ Cardinality(DOMAIN cache[it.language]) # it.used

\* a call begins / ends: outcome is "returned" or the exception that left it
Begin(t, op) == [IdleWorker EXCEPT !.op = op, !.calls = worker[t].calls + 1]
Finish(t, outcome, result) ==
    [IdleWorker EXCEPT !.op = worker[t].op, !.calls = worker[t].calls,
                       !.outcome = outcome, !.result = result]

\* what a loader goes on with once its rows are cached, or once its except
\* clause has caught an exception
AfterLoad(w) ==
    [w EXCEPT !.pc = IF w.op = "get_translations_by_category" THEN "result_start"
                     ELSE "mark_loaded",
              !.rows = <<>>, !.ckey = <<>>, !.value = PyNone, !.target = None]

\* for translation in translations: self._cache_translation(...)
CacheRowsFrom(w, rows, language_code) ==
    IF rows = <<>>
    THEN AfterLoad(w)
    ELSE [w EXCEPT !.pc = "cache_check", !.ckey = Head(rows).key, !.value = Head(rows).value,
                   !.target = language_code, !.rows = Tail(rows)]

threads_idle == <<storage, last, accept_language, detected, request_vars, singleton_vars,
                  open_sessions, locale_vars, response>>

InitThreads ==
    /\ storage = ThreadTable
    /\ cache = EmptyDict
    /\ cache_loaded = {}
    /\ last = NoCall
    /\ accept_language = <<>>
    /\ detected = None
    /\ NoRequest
    /\ NoCaller
    /\ NoWorker
    /\ open_sessions = 0
    /\ NoFlaskRequest
    /\ response = NoResponse

\* ---- get_translation
StartGetTranslation(t) ==
    /\ worker[t].pc = "idle"
    /\ worker[t].calls < MaxCalls
    /\ \E key \in ThreadKeys, args \in ThreadTranslationArgs :
          worker' = [worker EXCEPT ![t] =
                       [Begin(t, "get_translation") EXCEPT
                          !.pc = "lookup", !.key = key,
                          !.language = validate_language_code(default_language_code(args[1])),
                          !.fallback = default_fallback_language(default_language_code(args[1]),
                                                                 args[2])]]
    /\ UNCHANGED <<cache, cache_loaded, threads_idle>>

\* translation = self._get_from_cache(key, language_code)
Lookup(t) ==
    /\ worker[t].pc = "lookup"
    /\ LET translation == _get_from_cache(cache, worker[t].key, worker[t].language)
       IN worker' = [worker EXCEPT ![t] =
                       IF translation # PyNone
                       THEN Finish(t, "returned", translation)
                       ELSE [@ EXCEPT !.pc = "load"]]
    /\ UNCHANGED <<cache, cache_loaded, threads_idle>>

\* translation = self._load_translation_from_db(key, language_code)
Load(t) ==
    /\ worker[t].pc = "load"
    /\ LET translation == _load_translation_from_db(worker[t].key, worker[t].language, FALSE).ret
       IN worker' = [worker EXCEPT ![t] =
                       IF translation # PyNone
                       THEN [@ EXCEPT !.pc = "cache_check", !.ckey = worker[t].key,
                                      !.value = translation, !.target = worker[t].language]
                       ELSE IF @.fallback # @.language
                       THEN [@ EXCEPT !.pc = "fallback_lookup"]
                       ELSE Finish(t, "returned", @.key)]
    /\ UNCHANGED <<cache, cache_loaded, threads_idle>>

\* fallback_translation = self._get_from_cache(key, fallback_language)
FallbackLookup(t) ==
    /\ worker[t].pc = "fallback_lookup"
    /\ LET translation == _get_from_cache(cache, worker[t].key, worker[t].fallback)
       IN worker' = [worker EXCEPT ![t] =
                       IF translation # PyNone
                       THEN Finish(t, "returned", translation)
                       ELSE [@ EXCEPT !.pc = "fallback_load"]]
    /\ UNCHANGED <<cache, cache_loaded, threads_idle>>

\* fallback_translation = self._load_translation_from_db(key, fallback_language)
FallbackLoad(t) ==
    /\ worker[t].pc = "fallback_load"
    /\ LET translation == _load_translation_from_db(worker[t].key, worker[t].fallback, FALSE).ret
       IN worker' = [worker EXCEPT ![t] =
                       IF translation # PyNone
                       THEN [@ EXCEPT !.pc = "cache_check", !.ckey = worker[t].key,
                                      !.value = translation, !.target = worker[t].fallback]
                       ELSE Finish(t, "returned", @.key)]
    /\ UNCHANGED <<cache, cache_loaded, threads_idle>>

\* ---- _cache_translation
\* if language_code not in self._cache:
CacheCheck(t) ==
    /\ worker[t].pc = "cache_check"
    /\ worker' = [worker EXCEPT ![t].pc = IF worker[t].target \notin DOMAIN cache
                                          THEN "cache_create" ELSE "cache_store"]
    /\ UNCHANGED <<cache, cache_loaded, threads_idle>>

\* self._cache[language_code] = {}
CacheCreate(t) ==
    /\ worker[t].pc = "cache_create"
    /\ cache' = DictPut(cache, worker[t].target, EmptyDict)
    /\ worker' = [Detach(worker, {worker[t].target}) EXCEPT ![t].pc = "cache_store"]
    /\ UNCHANGED <<cache_loaded, threads_idle>>

\* self._cache[language_code][key] = value: KeyError when the language has
\* left self._cache.  In get_translation nothing catches it; in the loaders the
\* call is inside try and except Exception ends the loading.
CacheStore(t) ==
    /\ worker[t].pc = "cache_store"
    /\ IF worker[t].target \notin DOMAIN cache
       THEN /\ worker' = [worker EXCEPT ![t] =
                            IF @.op = "get_translation"
                            THEN Finish(t, "KeyError", PyNone)
                            ELSE AfterLoad(@)]
            /\ UNCHANGED cache
       ELSE /\ cache' = [cache EXCEPT ![worker[t].target] =
                                        DictPut(@, worker[t].ckey, worker[t].value)]
            /\ worker' = [worker EXCEPT ![t] =
                            IF @.op = "get_translation"
                            THEN Finish(t, "returned", @.value)
                            ELSE CacheRowsFrom(@, @.rows, @.target)]
    /\ UNCHANGED <<cache_loaded, threads_idle>>

\* ---- get_translations_by_category
StartCategory(t) ==
    /\ worker[t].pc = "idle"
    /\ worker[t].calls < MaxCalls
    /\ \E args \in ThreadCategoryArgs :
          worker' = [worker EXCEPT ![t] =
                       [Begin(t, "get_translations_by_category") EXCEPT
                          !.pc = "cached_check", !.category = args[1],
                          !.language = validate_language_code(default_language_code(args[2]))]]
    /\ UNCHANGED <<cache, cache_loaded, threads_idle>>

\* _is_category_cached: if language_code not in self._cache: return False
CachedCheck(t) ==
    /\ worker[t].pc = "cached_check"
    /\ worker' = [worker EXCEPT ![t].pc = IF worker[t].language \notin DOMAIN cache
                                          THEN "category_load" ELSE "cached_iter_start"]
    /\ UNCHANGED <<cache, cache_loaded, threads_idle>>

\* _is_category_cached: ... for key in self._cache[language_code]
CachedIterStart(t) ==
    /\ worker[t].pc = "cached_iter_start"
    /\ worker' = [worker EXCEPT ![t] =
                    IF @.language \notin DOMAIN cache
                    THEN Finish(t, "KeyError", EmptyDict)
                    ELSE [@ EXCEPT !.pc = "cached_iter",
                                   !.it = NewIter(cache, worker[t].language)]]
    /\ UNCHANGED <<cache, cache_loaded, threads_idle>>

\* _is_category_cached: one turn of any(key.startswith(...) for key in ...)
CachedIter(t) ==
    /\ worker[t].pc = "cached_iter"
    /\ worker' = [worker EXCEPT ![t] =
                    IF SizeChanged(@.it)
                    THEN Finish(t, "RuntimeError", EmptyDict)
                    ELSE IF @.it.rest = <<>>
                    THEN [@ EXCEPT !.pc = "category_load", !.it = NoIter]
                    ELSE IF StartsWithCategory(Head(@.it.rest)[1], @.category)
                    THEN [@ EXCEPT !.pc = "result_start", !.it = NoIter]
                    ELSE [@ EXCEPT !.it.rest = Tail(@)]]
    /\ UNCHANGED <<cache, cache_loaded, threads_idle>>

\* _load_category_from_db: the query
CategoryLoad(t) ==
    /\ worker[t].pc = "category_load"
    /\ worker' = [worker EXCEPT ![t] =
                    CacheRowsFrom(@, SeqOf({r \in storage : /\ r.category = @.category
                                                             /\ r.language_code = @.language}),
                                  @.language)]
    /\ UNCHANGED <<cache, cache_loaded, threads_idle>>

\* the comprehension: self._cache.get(language_code, {}).items()
ResultStart(t) ==
    /\ worker[t].pc = "result_start"
    /\ worker' = [worker EXCEPT ![t] =
                    [@ EXCEPT !.pc = "result_iter", !.it = NewIter(cache, worker[t].language),
                              !.result = EmptyDict]]
    /\ UNCHANGED <<cache, cache_loaded, threads_idle>>

\* the comprehension: one turn
ResultIter(t) ==
    /\ worker[t].pc = "result_iter"
    /\ worker' = [worker EXCEPT ![t] =
                    IF SizeChanged(@.it)
                    THEN Finish(t, "RuntimeError", EmptyDict)
                    ELSE IF @.it.rest = <<>>
                    THEN Finish(t, "returned", @.result)
                    ELSE LET item == Head(@.it.rest)
                         IN [@ EXCEPT !.it.rest = Tail(@),
                                      !.result = IF StartsWithCategory(item[1], worker[t].category)
                                                 THEN DictPut(@, item[1], item[2]) ELSE @]]
    /\ UNCHANGED <<cache, cache_loaded, threads_idle>>

\* ---- preload_translations
StartPreload(t) ==
    /\ worker[t].pc = "idle"
    /\ worker[t].calls < MaxCalls
    /\ \E language_code \in ThreadPreloadArgs :
          worker' = [worker EXCEPT ![t] =
                       [Begin(t, "preload_translations") EXCEPT
                          !.pc = "next_language",
                          !.todo = IF Truthy(language_code) THEN <<language_code>>
                                   ELSE SeqOf(SUPPORTED_LANGUAGES)]]
    /\ UNCHANGED <<cache, cache_loaded, threads_idle>>

\* for lang in languages_to_load: the two tests
NextLanguage(t) ==
    /\ worker[t].pc = "next_language"
    /\ worker' = [worker EXCEPT ![t] =
                    IF @.todo = <<>>
                    THEN Finish(t, "returned", EmptyDict)
                    ELSE IF Head(@.todo) \notin SUPPORTED_LANGUAGES \/ Head(@.todo) \in cache_loaded
                    THEN [@ EXCEPT !.todo = Tail(@)]
                    ELSE [@ EXCEPT !.pc = "load_all", !.language = Head(worker[t].todo)]]
    /\ UNCHANGED <<cache, cache_loaded, threads_idle>>

\* _load_all_translations_from_db: the query
LoadAll(t) ==
    /\ worker[t].pc = "load_all"
    /\ worker' = [worker EXCEPT ![t] =
                    CacheRowsFrom(@, SeqOf({r \in storage : r.language_code = @.language}),
                                  @.language)]
    /\ UNCHANGED <<cache, cache_loaded, threads_idle>>

\* self._cache_loaded.add(lang)
MarkLoaded(t) ==
    /\ worker[t].pc = "mark_loaded"
    /\ cache_loaded' = cache_loaded \cup {worker[t].language}
    /\ worker' = [worker EXCEPT ![t].pc = "next_language", ![t].todo = Tail(@)]
    /\ UNCHANGED <<cache, threads_idle>>

\* ---- clear_cache
StartClear(t) ==
    /\ worker[t].pc = "idle"
    /\ worker[t].calls < MaxCalls
    /\ \E language_code \in ThreadClearArgs :
          worker' = [worker EXCEPT ![t] =
                       [Begin(t, "clear_cache") EXCEPT !.pc = "clear_entries",
                                                       !.language = language_code]]
    /\ UNCHANGED <<cache, cache_loaded, threads_idle>>

\* self._cache.pop(language_code, None) / self._cache.clear()
ClearEntries(t) ==
    /\ worker[t].pc = "clear_entries"
    /\ LET gone == IF Truthy(worker[t].language) THEN {worker[t].language} ELSE DOMAIN cache
       IN /\ cache' = [l \in (DOMAIN cache) \ gone |-> cache[l]]
          /\ worker' = [Detach(worker, gone) EXCEPT ![t].pc = "clear_marks"]
    /\ UNCHANGED <<cache_loaded, threads_idle>>

\* self._cache_loaded.discard(language_code) / self._cache_loaded.clear()
ClearMarks(t) ==
    /\ worker[t].pc = "clear_marks"
    /\ cache_loaded' = IF Truthy(worker[t].language) THEN cache_loaded \ {worker[t].language}
                       ELSE {}
    /\ worker' = [worker EXCEPT ![t] = Finish(t, "returned", EmptyDict)]
    /\ UNCHANGED <<cache, threads_idle>>

NextThreads ==
    \E t \in Threads :
        \/ StartGetTranslation(t)
        \/ Lookup(t)
        \/ Load(t)
        \/ FallbackLookup(t)
        \/ FallbackLoad(t)
        \/ CacheCheck(t)
        \/ CacheCreate(t)
        \/ CacheStore(t)
        \/ StartCategory(t)
        \/ CachedCheck(t)
        \/ CachedIterStart(t)
        \/ CachedIter(t)
        \/ CategoryLoad(t)
        \/ ResultStart(t)
        \/ ResultIter(t)
        \/ StartPreload(t)
        \/ NextLanguage(t)
        \/ LoadAll(t)
        \/ MarkLoaded(t)
        \/ StartClear(t)
        \/ ClearEntries(t)
        \/ ClearMarks(t)

SpecThreads == InitThreads /\ [][NextThreads]_vars

\* ---------------------------------------------------------------------------
\* the Flask application's locale selection (config/i18n.py)
\* ---------------------------------------------------------------------------
\* SUPPORTED_LANGUAGES and DEFAULT_LANGUAGE of config/i18n.py
FLASK_SUPPORTED_LANGUAGES == {"en", "es"}
FLASK_DEFAULT_LANGUAGE == "en"

\* the 'lang' URL parameter: absent, empty, supported, supported in upper
\* case, unsupported
FlaskLangArgs == {None, "", "en", "es", "EN", "fr"}

\* what User.query.get(session['user_id']) gives: no row, an exception, or a
\* row with its preferred_language (a nullable string column)
UserRows ==
    {[exists |-> FALSE, preferred_language |-> None, error |-> FALSE],
     [exists |-> FALSE, preferred_language |-> None, error |-> TRUE]}
    \cup {[exists |-> TRUE, preferred_language |-> l, error |-> FALSE] :
              l \in {None, "es", "ES", "fr"}}

\* the session dictionaries a request may arrive with: with or without a
\* language, with or without the user_id of a logged-in user
FlaskSessions ==
    {EmptyDict, [k \in {"user_id"} |-> "1"]}
    \cup {[k \in {"language"} |-> l] : l \in {"en", "ES", "fr"}}
    \cup {[k \in {"language", "user_id"} |-> IF k = "language" THEN l ELSE "1"] :
              l \in {"en", "ES", "fr"}}

\* the requests: without an Accept-Language header nothing is parsed; with one,
\* the parser (werkzeug's LanguageAccept, which is not part of the repository)
\* matches one of the supported codes or none
FlaskRequests ==
    {r \in [lang : FlaskLangArgs, has_accept_language : BOOLEAN,
            parsed : {None} \cup FLASK_SUPPORTED_LANGUAGES,
            session : FlaskSessions, user : UserRows] :
        ~r.has_accept_language => r.parsed = None}

\* str.lower() on the language codes of the model
lower(str) == IF str = "EN" THEN "en" ELSE IF str = "ES" THEN "es" ELSE str

\* is_language_supported of config/i18n.py
flask_is_language_supported(language_code) ==
    IF ~Truthy(language_code) THEN FALSE ELSE lower(language_code) \in FLASK_SUPPORTED_LANGUAGES

\* detect_browser_language: None without the header, else the supported code
\* the parsed header matches, None when it matches none or parsing raises
detect_browser_language(req) ==
    IF ~req.has_accept_language THEN None ELSE req.parsed

\* get_locale_selector: the language returned and the session it leaves
get_locale_selector(req, sess) ==
    LET requested_language == req.lang
        user == req.user
        browser_language == detect_browser_language(req)
    IN  IF Truthy(requested_language) /\ flask_is_language_supported(requested_language)
        THEN [locale |-> requested_language,
              session |-> DictPut(sess, "language", requested_language)]
        ELSE IF "language" \in DOMAIN sess /\ flask_is_language_supported(sess["language"])
        THEN [locale |-> sess["language"], session |-> sess]
        ELSE IF /\ "user_id" \in DOMAIN sess
                /\ ~user.error
                /\ user.exists
                /\ Truthy(user.preferred_language)
                /\ flask_is_language_supported(user.preferred_language)
        THEN [locale |-> user.preferred_language,
              session |-> DictPut(sess, "language", user.preferred_language)]
        ELSE IF Truthy(browser_language)
        THEN [locale |-> browser_language,
              session |-> DictPut(sess, "language", browser_language)]
        ELSE [locale |-> FLASK_DEFAULT_LANGUAGE,
              session |-> DictPut(sess, "language", FLASK_DEFAULT_LANGUAGE)]

InitLocale ==
    /\ storage = {}
    /\ cache = EmptyDict
    /\ cache_loaded = {}
    /\ last = NoCall
    /\ accept_language = <<>>
    /\ detected = None
    /\ NoRequest
    /\ NoCaller
    /\ NoWorker
    /\ open_sessions = 0
    /\ flask_request \in FlaskRequests
    /\ session = flask_request.session
    /\ locale = None
    /\ response = NoResponse

\* the application asks for the locale of the request
GetLocaleSelector ==
    /\ locale = None
    /\ LET r == get_locale_selector(flask_request, session)
       IN /\ locale' = r.locale
          /\ session' = r.session
    /\ UNCHANGED <<storage, cache, cache_loaded, last, accept_language, detected, request_vars,
                   singleton_vars, worker, open_sessions, flask_request, response>>

NextLocale == GetLocaleSelector

SpecLocale == InitLocale /\ [][NextLocale]_vars

\* ---------------------------------------------------------------------------
\* the API endpoints behind the middleware (app/api/i18n.py) and the
\* TranslationHelper they use (app/core/i18n_helpers.py)
\* ---------------------------------------------------------------------------
\* a row whose text is its own key (value is a free text column)
EchoTranslation(key, language_code) ==
    [key |-> key, language_code |-> language_code,
     value |-> key, category |-> get_category_from_key(key)]

\* the key the requests ask for
ApiKeys == {<<"ui", "a">>}

\* the rows the table may hold for it
ApiRows ==
    {Translation(k, l) : k \in ApiKeys, l \in {"en", "zh", "fr"}}
    \cup {EchoTranslation(k, "en") : k \in ApiKeys}

\* getattr(request.state, 'language', 'zh')
get_request_language(state_language) ==
    IF state_language = None THEN "zh" ELSE state_language

\* TranslationHelper.translate: the service's answer for the request's
\* language, and the caller's fallback when that answer is the key
TranslationHelper_translate(c, key, language, fallback, err1, err2) ==
    LET r == get_translation(c, key, language, None, err1, err2)
        translation == r.result
    IN  [result |-> IF translation = key /\ fallback # PyNone THEN fallback ELSE translation,
         translation |-> translation, source |-> r.source, cache |-> r.cache,
         queries |-> r.queries, raised |-> r.raised]

\* "found": translation != key
found(translation, key) == translation # key

\* get_current_language's detection_method
detection_method(req) ==
    IF Truthy(req.lang) THEN "query_parameter"
    ELSE IF Truthy(req.x_language) THEN "custom_header"
    ELSE IF req.accept_language # PyNone /\ req.accept_language # <<>> THEN "accept_language_header"
    ELSE "default"

\* the application as main.py builds it: I18nMiddleware(default_language="zh")
InitApi ==
    /\ storage \in {rows \in SUBSET ApiRows :
                       Cardinality(rows) <= MaxRecords /\ UniqueKeyLanguage(rows)}
    /\ cache = EmptyDict
    /\ cache_loaded = {}
    /\ last = NoCall
    /\ accept_language = <<>>
    /\ detected = None
    /\ default_language = "zh"
    /\ request \in Requests
    /\ request_language = None
    /\ content_language = None
    /\ NoCaller
    /\ NoWorker
    /\ open_sessions = 0
    /\ NoFlaskRequest
    /\ response = NoResponse

\* a handler's call of helper.translate, with or without a fallback text, and
\* what it leaves in the service
HelperTranslate(endpoint, key, fallback) ==
    LET language == get_request_language(request_language)
        issued == TranslationHelper_translate(cache, key, language, fallback, TRUE, TRUE).queries
    IN  \E err1 \in QueryOutcomes(issued, 1), err2 \in QueryOutcomes(issued, 2) :
          LET r == TranslationHelper_translate(cache, key, language, fallback, err1, err2)
          IN  /\ response' = [NoResponse EXCEPT
                                !.endpoint = endpoint, !.key = key, !.value = r.result,
                                !.language = language, !.fallback = fallback,
                                !.found = found(r.result, key)]
              /\ cache' = r.cache
              /\ last' = [NoCall EXCEPT
                            !.op = "get_translation", !.key = key, !.language = language,
                            !.result = r.translation, !.source = r.source,
                            !.queries = r.queries, !.raised = r.raised,
                            !.opened = sessions_opened(QuerySet(r.queries)),
                            !.closed = sessions_closed(QuerySet(r.queries))]
              /\ storage' = session_close(storage, RowsRead(QuerySet(r.queries)))
              /\ open_sessions' = open_sessions + sessions_opened(QuerySet(r.queries))
                                                - sessions_closed(QuerySet(r.queries))

\* GET /i18n/translations/{key}
GetTranslationEndpoint ==
    /\ request_language # None
    /\ response = NoResponse
    /\ \E key \in ApiKeys : HelperTranslate("get_translation", key, PyNone)
    /\ UNCHANGED <<cache_loaded, accept_language, detected, request_vars, singleton_vars,
                   worker, locale_vars>>

\* a handler that translates with a fallback text (translate_dict, translate_error)
TranslateWithFallback ==
    /\ request_language # None
    /\ response = NoResponse
    /\ \E key \in ApiKeys, fallback \in {<<"fallback text">>} : HelperTranslate("translate", key, fallback)
    /\ UNCHANGED <<cache_loaded, accept_language, detected, request_vars, singleton_vars,
                   worker, locale_vars>>

\* GET /i18n/language/current
GetCurrentLanguage ==
    /\ request_language # None
    /\ response = NoResponse
    /\ response' = [NoResponse EXCEPT
                      !.endpoint = "get_current_language",
                      !.current_language = get_request_language(request_language),
                      !.detection_method = detection_method(request)]
    /\ UNCHANGED <<storage, cache, cache_loaded, last, accept_language, detected, request_vars,
                   singleton_vars, worker, open_sessions, locale_vars>>

NextApi ==
    \/ Dispatch
    \/ GetTranslationEndpoint
    \/ TranslateWithFallback
    \/ GetCurrentLanguage

SpecApi == InitApi /\ [][NextApi]_vars

\* ---------------------------------------------------------------------------
\* what the claims speak of
\* ---------------------------------------------------------------------------
\* storage holds a row for (key, language_code)
HasRow(key, language_code) ==
    \E r \in storage : r.key = key /\ r.language_code = language_code

\* the value of that row
StoredValue(key, language_code) ==
    (CHOOSE r \in storage : r.key = key /\ r.language_code = language_code).value

\* the call issued a query for (key, language_code) and it raised
QueryFailed(key, language_code) ==
    \E i \in 1..Len(last.queries) : last.queries[i] = Query("one", key, language_code, TRUE)

\* C1 as stated: for a supported language L and a key K with a row for L,
\* get_translation(K, L) returns the row's value, whatever the cache holds.
C1_AsStated ==
    (/\ last.op = "get_translation"
     /\ last.language \in SUPPORTED_LANGUAGES
     /\ HasRow(last.key, last.language))
    => (~last.raised /\ last.result = StoredValue(last.key, last.language))

\* C1 amended: for a supported language L and a key K with a row for L,
\* get_translation(K, L) returns the row's value from every reachable cache
\* state, unless the storage query for (K, L) that the call issues raises (the
\* failure is then treated as a miss).
C1_StoredValueReturned ==
    (/\ last.op = "get_translation"
     /\ last.language \in SUPPORTED_LANGUAGES
     /\ HasRow(last.key, last.language)
     /\ ~QueryFailed(last.key, last.language))
    => (~last.raised /\ last.result = StoredValue(last.key, last.language))

\* C1 witness: a call for a stored (K, L) answered from a cache that also
\* holds the key under another language.
C1_Witness ==
    /\ last.op = "get_translation"
    /\ last.language \in SUPPORTED_LANGUAGES
    /\ HasRow(last.key, last.language)
    /\ last.queries = <<>>
    /\ last.result = StoredValue(last.key, last.language)
    /\ \E l \in DOMAIN cache : l # last.language /\ last.key \in DOMAIN cache[l]

\* the fallback language the claim C2 speaks of: F, English when none is given
ClaimedFallback == IF last.fallback = None THEN "en" ELSE last.fallback

\* K has a row in the fallback language only, and the requested language is
\* supported and is not the fallback language
OnlyInFallback ==
    /\ last.op = "get_translation"
    /\ last.language \in SUPPORTED_LANGUAGES
    /\ last.language # ClaimedFallback
    /\ HasRow(last.key, ClaimedFallback)
    /\ \A r \in storage : r.key = last.key => r.language_code = ClaimedFallback

\* C2 as stated: a key stored only in the fallback language F is returned with
\* F's value; F is English when no fallback is given.
C2_AsStated ==
    OnlyInFallback => last.result = StoredValue(last.key, ClaimedFallback)

\* C2 amended: a key stored only in the fallback language F (English when none
\* is given) and requested in a supported language L # F is returned with F's
\* value, unless the storage query for (K, F) raises.
C2_FallbackValueReturned ==
    (OnlyInFallback /\ ~QueryFailed(last.key, ClaimedFallback))
    => (~last.raised /\ last.result = StoredValue(last.key, ClaimedFallback))

\* C2 witness: no fallback given, the value comes from the English row.
C2_Witness ==
    /\ OnlyInFallback
    /\ last.fallback = None
    /\ last.source = "fallback storage"
    /\ last.result = StoredValue(last.key, "en")

\* C3: a key with no row in any supported language comes back unchanged from
\* get_translation(K, L), for L supported, unsupported or unset, whatever the
\* cache holds.
C3_KeyReturnedUnchanged ==
    (/\ last.op = "get_translation"
     /\ last.fallback = None
     /\ \A l \in SUPPORTED_LANGUAGES : ~HasRow(last.key, l))
    => (~last.raised /\ last.result = last.key)

\* C3 witness: the key has a row, but for an unsupported language, and that
\* language is the one asked for.
C3_Witness ==
    /\ last.op = "get_translation"
    /\ last.fallback = None
    /\ last.language = "de"
    /\ HasRow(last.key, "de")
    /\ \A l \in SUPPORTED_LANGUAGES : ~HasRow(last.key, l)
    /\ last.result = last.key
    /\ cache # EmptyDict

\* C4: no exception leaves get_translation; it returns a stored value or the key.
C4_NoExceptionEscapes ==
    last.op = "get_translation"
    => (/\ ~last.raised
        /\ last.result \in {last.key} \cup {r.value : r \in storage})

\* C4 witness: both queries of a call raised although the rows exist, and the
\* call returned the key.
C4_Witness ==
    /\ last.op = "get_translation"
    /\ Len(last.queries) = 2
    /\ \A i \in 1..2 : last.queries[i][4] = "error"
    /\ ~last.raised
    /\ last.result = last.key

\* C5 as stated: of two get_translation calls in succession with the same
\* arguments the second returns what the first returned and issues no query.
C5_AsStated ==
    (last.op = "get_translation" /\ last.before # "")
    => (last.same_as_before /\ last.queries = <<>>)

\* C5 amended: when the first of two successive get_translation(K, L) calls
\* found K in the requested language (in the cache or in storage), the second
\* returns the same value and issues no storage query; when the first resolved
\* K through the fallback language or returned the key, the second call
\* queries storage again.
C5_SecondCallFromCache ==
    last.op = "get_translation"
    => (/\ last.before = "language" => (last.same_as_before /\ last.queries = <<>>)
        /\ last.before = "elsewhere" => last.queries # <<>>)

\* C5 witness: the second of two equal calls, served from the cache.
C5_Witness ==
    /\ last.op = "get_translation"
    /\ last.before = "language"
    /\ last.same_as_before
    /\ last.queries = <<>>
    /\ last.source = "cache"

\* C6 as stated: after clear_cache(L) the next get_translation(K, L), for a key
\* that was cached under L, queries storage.
C6_AsStated ==
    (last.op = "get_translation" /\ last.after_clear) => last.queries # <<>>

\* C6 for a supported language: after clear_cache(L) for a supported L, the next
\* get_translation(K, L) for a key that was cached under L queries storage for
\* (K, L) again.
C6_RequeryAfterClear ==
    (/\ last.op = "get_translation"
     /\ last.after_clear
     /\ last.language \in SUPPORTED_LANGUAGES)
    => (/\ last.queries # <<>>
        /\ last.queries[1][2] = last.key
        /\ last.queries[1][3] = last.language)

\* C6 witness: the key was cached under en, en was cleared, and the call read
\* the row again.
C6_Witness ==
    /\ last.op = "get_translation"
    /\ last.after_clear
    /\ last.language = "en"
    /\ last.source = "storage"

\* the pairs of a language whose key begins with "<category>."
PairsOfCategory(category, language_code) ==
    [key \in {r.key : r \in {x \in storage : /\ x.language_code = language_code
                                              /\ StartsWithCategory(x.key, category)}}
        |-> StoredValue(key, language_code)]

\* C7 as stated: get_translations_by_category(C, L) returns exactly the pairs
\* of language L whose key begins with "C.", all of them, whatever the cache
\* holds (here even granted that the query of the call, if any, did not raise).
C7_AsStated ==
    (/\ last.op = "get_translations_by_category"
     /\ ~Failed(last.queries))
    => last.result = PairsOfCategory(last.category,
                                     validate_language_code(default_language_code(last.language)))

\* ---------------------------------------------------------------------------
\* what the claims on detect_language_from_header speak of
\* ---------------------------------------------------------------------------
\* the supported entries of the header, (language, weight), in header order
Entries == parse_ranges(Split(accept_language, ","))

\* the entries that name the detected language
DetectedEntries == {i \in 1..Len(Entries) : Entries[i][1] = detected}

\* some weight of the header is not a number
SomeWeightNaN == \E i \in 1..Len(Entries) : Entries[i][2].nan

\* entry i carries the highest weight, and is the first to carry it
FirstHighest(i) ==
    /\ \A j \in 1..Len(Entries) : ~FloatLess(Entries[i][2], Entries[j][2])
    /\ \A j \in 1..(i - 1) :
          FloatLess(Entries[j][2], Entries[i][2]) \/ Entries[j][2].nan \/ Entries[i][2].nan

\* C8 as stated: the language returned is the supported base language of the
\* entry with the highest weight, the first such entry when several share it
\* (an entry whose weight is not a number is taken to challenge no other).
C8_AsStated ==
    (detected # None /\ Entries # <<>>) => \E i \in DetectedEntries : FirstHighest(i)

\* C8, numeric weights only: the statement holds of every header none of whose
\* weights is not-a-number.
C8_NumericWeights ==
    (detected # None /\ Entries # <<>> /\ ~SomeWeightNaN)
    => \E i \in DetectedEntries : FirstHighest(i)

\* the lower-cased header holds no supported language code anywhere
NamesNoSupportedLanguage ==
    LET low == Lower(accept_language)
    IN \A i \in 1..(Len(low) - 1) : AsString(SubSeq(low, i, i + 1)) \notin SUPPORTED_LANGUAGES

\* C9: the result is the default language zh when the header is empty or names
\* no supported language, and is always a supported language.
C9_DefaultAndSupported ==
    detected # None
    => (/\ detected \in {"en", "zh", "es", "fr"}
        /\ (accept_language = <<>> \/ NamesNoSupportedLanguage) => detected = "zh")

\* C9 witness: a header of unsupported languages only, answered with zh.
C9_Witness ==
    /\ accept_language # <<>>
    /\ Len(Split(accept_language, ",")) >= 2
    /\ NamesNoSupportedLanguage
    /\ detected = "zh"

\* the text is a decimal number: digits with at most one point among them
IsNumeral(text) ==
    /\ \E i \in 1..Len(text) : IsDigit(text[i])
    /\ \A i \in 1..Len(text) : IsDigit(text[i]) \/ text[i] = "."
    /\ Len(Split(text, ".")) <= 2

\* the quality of a language range is malformed: there is a ';' and what
\* follows has no '=', or what follows the '=' is not a number
MalformedQuality(lang_range) ==
    LET fields == SplitOnce(Strip(lang_range), ";")
    IN /\ Len(fields) = 2
       /\ \/ Len(Split(fields[2], "=")) < 2
          \/ ~IsNumeral(Strip(Split(fields[2], "=")[2]))

\* a supported language range of the header has a malformed quality
SupportedMalformed ==
    \E k \in 1..Len(Split(accept_language, ",")) :
        LET lang_range == Split(accept_language, ",")[k]
        IN MalformedQuality(lang_range) /\ parse_range(lang_range)[1] \in SUPPORTED_LANGUAGES

\* C10 as stated: a supported entry with a malformed quality counts with
\* weight 1.0, so no entry whose weight is below 1.0 is returned in its place.
C10_AsStated ==
    (detected # None /\ SupportedMalformed)
    => \E i \in DetectedEntries : ~FloatLess(Entries[i][2], Number(DefaultQuality))

\* C10, numeric weights only: the statement holds of every header none of whose
\* weights is not-a-number.
C10_NumericWeights ==
    (detected # None /\ SupportedMalformed /\ ~SomeWeightNaN)
    => \E i \in DetectedEntries : Entries[i][2] = Number(DefaultQuality)

\* ---------------------------------------------------------------------------
\* what the claims on the middleware speak of
\* ---------------------------------------------------------------------------
\* the language negotiated from the request's Accept-Language header
Negotiated == detect_language_from_header(request.accept_language)

\* the request carries an Accept-Language header with something in it
HasAcceptLanguage == request.accept_language # PyNone /\ request.accept_language # <<>>

\* C11 as stated: the effective language is taken from the 'lang' parameter
\* when the request carries one, else from the X-Language header when the
\* request carries one, else negotiated from Accept-Language when the request
\* carries one, else the default.
C11_AsStated ==
    request_language # None
    => request_language =
         IF request.lang # None THEN request.lang
         ELSE IF request.x_language # None THEN request.x_language
         ELSE IF request.accept_language # PyNone THEN Negotiated
         ELSE default_language

\* C11 amended: a source counts when it supplies a supported language.  The
\* effective language is the 'lang' parameter when that is a supported
\* language, else the X-Language header when that is a supported language,
\* else the language negotiated from a non-empty Accept-Language header, else
\* the default; a parameter or header that is empty or unsupported is passed
\* over, and the response's Content-Language is the effective language.
C11_StrictPriority ==
    request_language # None
    => /\ request_language =
            IF request.lang \in SUPPORTED_LANGUAGES THEN request.lang
            ELSE IF request.x_language \in SUPPORTED_LANGUAGES THEN request.x_language
            ELSE IF HasAcceptLanguage THEN Negotiated
            ELSE default_language
       /\ content_language = request_language

\* C11 witness: the parameter wins over a supported X-Language header and a
\* negotiable Accept-Language header that name other languages.
C11_Witness ==
    /\ request_language = "fr"
    /\ request.lang = "fr"
    /\ request.x_language = "en"
    /\ HasAcceptLanguage
    /\ Negotiated = "es"

\* ---------------------------------------------------------------------------
\* what the further claims on the service speak of
\* ---------------------------------------------------------------------------
\* language arguments that are unset, empty or unsupported
NotALanguage == {None, "", "de"}

\* the fallback_language arguments a call may carry
FallbackArgs == {a[2] : a \in TranslationArgs}

\* C12: get_translation(K, X) with X unset, empty or unsupported behaves
\* exactly as get_translation(K, "zh"): from every reachable cache state, for
\* every key, fallback argument and storage outcome, both calls return the same
\* value, issue the same queries and leave the same cache; and such a call
\* that has run looked up (K, zh), in the cache or in storage.
C12_UnsetAsDefault ==
    /\ \A key \in Keys, x \in NotALanguage, fallback \in FallbackArgs, err1, err2 \in BOOLEAN :
          get_translation(cache, key, x, fallback, err1, err2)
            = get_translation(cache, key, "zh", fallback, err1, err2)
    /\ (last.op = "get_translation" /\ last.language \in NotALanguage)
        => /\ last.source = "cache" => last.result = cache["zh"][last.key]
           /\ last.source # "cache" => (last.queries[1][2] = last.key /\ last.queries[1][3] = "zh")

\* C12 witness: a call with an empty language code answered with the zh row
\* read from storage.
C12_Witness ==
    /\ last.op = "get_translation"
    /\ last.language = ""
    /\ last.source = "storage"
    /\ HasRow(last.key, "zh")
    /\ last.result = StoredValue(last.key, "zh")

\* C13 as stated: every call of get_i18n_service, in every interleaving,
\* returns the same I18nService instance, so a translation cached through one
\* returned reference is visible through every other.
C13_AsStated ==
    \A t1, t2 \in Threads :
        (caller[t1].ref # NoInstance /\ caller[t2].ref # NoInstance)
        => (/\ caller[t1].ref = caller[t2].ref
            /\ instances[caller[t1].ref] = instances[caller[t2].ref])

\* C13, calls one after the other: when no two calls overlap before the
\* instance is stored, at most one I18nService is ever made.
C13_OneInstanceUnlessRaced ==
    Len(instances) > 1
    => \E t1, t2 \in Threads : t1 # t2 /\ caller[t1].calls > 0 /\ caller[t2].calls > 0

\* C14: in every reachable state each cache entry (L, K) -> v holds the value
\* of the storage row of exactly (K, L): the cache holds no pair storage does
\* not hold, and no value read for another key or language.
C14_CacheMirrorsStorage ==
    \A l \in DOMAIN cache : \A k \in DOMAIN cache[l] :
        HasRow(k, l) /\ cache[l][k] = StoredValue(k, l)

\* C14 witness: the same key is cached under two languages, one of them
\* reached as an explicit fallback, each with its own row's value.
C14_Witness ==
    /\ {"zh", "de"} \subseteq DOMAIN cache
    /\ \E k \in DOMAIN cache["zh"] :
          /\ k \in DOMAIN cache["de"]
          /\ cache["zh"][k] = StoredValue(k, "zh")
          /\ cache["de"][k] = StoredValue(k, "de")
          /\ cache["zh"][k] # cache["de"][k]

\* the language the last get_translation looked the key up in, and its fallback
LookupLanguage == validate_language_code(default_language_code(last.language))
FallbackLanguage == default_fallback_language(default_language_code(last.language), last.fallback)

\* the i-th query of the last call raised
QueryRaised(i) == i <= Len(last.queries) /\ last.queries[i][4] = "error"

\* C15: a storage failure during get_translation is a miss and is not
\* retried.  No (key, language) is queried twice by one call; a query that
\* raised leaves no cache entry for its pair; after a failed lookup in the
\* requested language the call goes on to the fallback language (its cache,
\* then storage); and when neither yields a value the key itself is returned.
C15_FailureIsAMiss ==
    last.op = "get_translation"
    => /\ ~last.raised
       /\ Len(last.queries) <= 2
       /\ Len(last.queries) = 2 => last.queries[1][3] # last.queries[2][3]
       /\ \A i \in 1..Len(last.queries) :
             QueryRaised(i)
             => ~(/\ last.queries[i][3] \in DOMAIN cache
                  /\ last.key \in DOMAIN cache[last.queries[i][3]])
       /\ QueryRaised(1)
          => /\ last.queries[1] = Query("one", last.key, LookupLanguage, TRUE)
             /\ last.source \in {"fallback cache", "fallback storage", "key"}
             /\ FallbackLanguage # LookupLanguage
                => \/ /\ last.source = "fallback cache"
                      /\ last.result = cache[FallbackLanguage][last.key]
                   \/ /\ Len(last.queries) = 2
                      /\ last.queries[2][2] = last.key
                      /\ last.queries[2][3] = FallbackLanguage
             /\ last.source = "fallback storage" => last.result = StoredValue(last.key, FallbackLanguage)
             /\ last.source = "key" => last.result = last.key
       /\ (QueryRaised(2) \/ (QueryRaised(1) /\ FallbackLanguage = LookupLanguage))
          => last.result = last.key

\* C15 witness: the row of the requested language exists but its query
\* raised; nothing was cached for it and the value came from the fallback row.
C15_Witness ==
    /\ last.op = "get_translation"
    /\ QueryRaised(1)
    /\ HasRow(last.key, LookupLanguage)
    /\ ~(LookupLanguage \in DOMAIN cache /\ last.key \in DOMAIN cache[LookupLanguage])
    /\ last.source = "fallback storage"
    /\ last.result = StoredValue(last.key, FallbackLanguage)

C17_AsStated ==
    \A t \in Threads : worker[t].outcome \in {"", "returned"}

\* every row of the language is in the cache under that language
RowsCached(language_code) ==
    \A r \in storage :
        r.language_code = language_code
        => /\ language_code \in DOMAIN cache
           /\ r.key \in DOMAIN cache[language_code]
           /\ cache[language_code][r.key] = r.value

\* C18 as stated: whenever a language is in the preloaded set every record of
\* that language is in the cache under it, and preload_translations(L) for a
\* supported L leaves L in the preloaded set.
C18_AsStated ==
    /\ \A l \in cache_loaded : RowsCached(l)
    /\ (last.op = "preload_translations" /\ last.language \in SUPPORTED_LANGUAGES)
       => last.language \in cache_loaded

\* C18, the mark alone: preload_translations(L) for a supported L leaves L in
\* the preloaded set, and only supported languages are ever marked.
C18_MarkedAfterPreload ==
    /\ cache_loaded \subseteq SUPPORTED_LANGUAGES
    /\ (last.op = "preload_translations" /\ last.language \in SUPPORTED_LANGUAGES)
       => last.language \in cache_loaded

\* C19: clear_cache(L) removes every cached entry of language L and L's
\* preloaded mark, and leaves the entries and the marks of every other language
\* as they were; clear_cache() with no language (None, or the empty string,
\* which the code takes for no language) leaves the cache and the preloaded
\* set empty.
C19_ClearCacheFrame ==
    [][last'.op = "clear_cache"
       => IF last'.language \notin {None, ""}
          THEN /\ last'.language \notin DOMAIN cache'
               /\ last'.language \notin cache_loaded'
               /\ DOMAIN cache' = (DOMAIN cache) \ {last'.language}
               /\ \A l \in DOMAIN cache' : cache'[l] = cache[l]
               /\ cache_loaded' = cache_loaded \ {last'.language}
          ELSE cache' = EmptyDict /\ cache_loaded' = {}]_vars

\* C19 witness: en was cleared, its entries are gone, and another language
\* still has its entries and other languages their preloaded marks.
C19_Witness ==
    /\ last.op = "clear_cache"
    /\ last.language = "en"
    /\ last.removed # {}
    /\ "en" \notin DOMAIN cache
    /\ cache # EmptyDict
    /\ cache_loaded # {}

\* the (language, key) entries of the cache
CachedEntries == UNION {{<<l, k>> : k \in DOMAIN cache[l]} : l \in DOMAIN cache}

\* C20: after any sequence of operations get_cache_stats reports
\* cached_languages = the number of languages that have cached entries,
\* total_cached_translations = the number of cached (language, key) entries,
\* preloaded_languages = the number of languages marked preloaded.
C20_StatsCountTheCache ==
    last.op = "get_cache_stats"
    => /\ last.stats.cached_languages
            = Cardinality({l \in DOMAIN cache : DOMAIN cache[l] # {}})
       /\ last.stats.total_cached_translations = Cardinality(CachedEntries)
       /\ last.stats.preloaded_languages = Cardinality(cache_loaded)

\* C20 witness: statistics of a cache that holds one language with two
\* entries while all four languages are marked preloaded.
C20_Witness ==
    /\ last.op = "get_cache_stats"
    /\ last.stats.cached_languages = 1
    /\ last.stats.total_cached_translations = 2
    /\ last.stats.preloaded_languages = 4

\* ---------------------------------------------------------------------------
\* the Flask locale selection
\* ---------------------------------------------------------------------------
\* the first available source of the priority list, "supported" being
\* membership in the supported set
FirstAvailableLocale ==
    LET req == flask_request
        sess == req.session
    IN  IF req.lang \in FLASK_SUPPORTED_LANGUAGES
        THEN req.lang
        ELSE IF "language" \in DOMAIN sess /\ sess["language"] \in FLASK_SUPPORTED_LANGUAGES
        THEN sess["language"]
        ELSE IF /\ "user_id" \in DOMAIN sess /\ req.user.exists
                /\ req.user.preferred_language \in FLASK_SUPPORTED_LANGUAGES
        THEN req.user.preferred_language
        ELSE IF req.has_accept_language /\ req.parsed # None
        THEN req.parsed
        ELSE "en"

\* C21 as stated: get_locale_selector returns the first available of the
\* supported 'lang' parameter, the supported session language, the logged-in
\* user's supported preference, the browser language and 'en'; afterwards
\* session['language'] is the returned language, a member of the supported set.
C21_AsStated ==
    locale # None =>
        /\ locale = FirstAvailableLocale
        /\ "language" \in DOMAIN session /\ session["language"] = locale
        /\ locale \in FLASK_SUPPORTED_LANGUAGES

\* the same list with "supported" read as the code tests it, the case of the
\* letters ignored
FirstAvailableUpToCase ==
    LET req == flask_request
        sess == req.session
    IN  IF lower(req.lang) \in FLASK_SUPPORTED_LANGUAGES
        THEN req.lang
        ELSE IF "language" \in DOMAIN sess /\ lower(sess["language"]) \in FLASK_SUPPORTED_LANGUAGES
        THEN sess["language"]
        ELSE IF /\ "user_id" \in DOMAIN sess /\ req.user.exists
                /\ lower(req.user.preferred_language) \in FLASK_SUPPORTED_LANGUAGES
        THEN req.user.preferred_language
        ELSE IF req.has_accept_language /\ req.parsed # None
        THEN req.parsed
        ELSE "en"

\* what is left of C21 in the code: the order of the sources and the session
\* entry hold, and the returned code is a supported one up to the case of its
\* letters only.
C21_PriorityUpToCase ==
    locale # None =>
        /\ locale = FirstAvailableUpToCase
        /\ "language" \in DOMAIN session /\ session["language"] = locale
        /\ lower(locale) \in FLASK_SUPPORTED_LANGUAGES

\* ---------------------------------------------------------------------------
\* the lookup chain of get_translation, call by call
\* ---------------------------------------------------------------------------
\* the language a call looks the key up in first: the requested one when it
\* is supported, zh otherwise
PrimaryLanguage(language_arg) ==
    IF language_arg \in SUPPORTED_LANGUAGES THEN language_arg ELSE "zh"

\* the fallback of a call that names none: English, and zh for English
ImplicitFallback(language_arg) == IF language_arg = "en" THEN "zh" ELSE "en"

\* the cache holds an entry for (key, language)
CachedUnder(c, key, language_code) ==
    language_code \in DOMAIN c /\ key \in DOMAIN c[language_code]

\* C22: a get_translation without fallback argument consults one fallback
\* only, English, or zh when English was requested: every query it issues is
\* for the language looked up first or for that fallback, the second query is
\* for that fallback, the value returned is never the value of a third
\* language, and a key with rows in neither the requested fr or es nor English
\* comes back as the key, whatever zh holds.
C22_OneImplicitFallback ==
    (last.op = "get_translation" /\ last.fallback = None) =>
        LET primary == PrimaryLanguage(last.language)
            fb == ImplicitFallback(last.language)
        IN  /\ \A i \in 1..Len(last.queries) : last.queries[i][3] \in {primary, fb}
            /\ Len(last.queries) = 2 => last.queries[2][3] = fb
            /\ \A l \in StoredLanguages \ {primary, fb} : last.result # StoredText(last.key, l)
            /\ (/\ last.language \in {"fr", "es"}
                /\ ~HasRow(last.key, last.language)
                /\ ~HasRow(last.key, "en")) => last.result = last.key

\* C22 witness: a key stored for zh only, requested for fr, came back as the key
\* after the queries for fr and en.
C22_Witness ==
    /\ last.op = "get_translation" /\ last.fallback = None /\ last.language = "fr"
    /\ HasRow(last.key, "zh") /\ ~HasRow(last.key, "fr") /\ ~HasRow(last.key, "en")
    /\ Len(last.queries) = 2
    /\ last.result = last.key

\* C23: one get_translation(K, L, F) issues at most two queries, (K, L) and
\* then (K, F); none exactly when (K, L) is cached; the second exactly when
\* (K, L) is neither cached nor read from storage, F differs from L and (K, F)
\* is not cached; and a call that went to the fallback leaves no entry under L.
C23_QueryOrder ==
    [][last'.op = "get_translation" =>
        LET K == last'.key
            L == PrimaryLanguage(last'.language)
            F == IF last'.fallback = None THEN ImplicitFallback(last'.language) ELSE last'.fallback
            q == last'.queries
        IN  /\ Len(q) <= 2
            /\ Len(q) >= 1 => (q[1][1] = "one" /\ q[1][2] = K /\ q[1][3] = L)
            /\ Len(q) = 2 => (q[2][1] = "one" /\ q[2][2] = K /\ q[2][3] = F)
            /\ (q = <<>>) <=> CachedUnder(cache, K, L)
            /\ (Len(q) = 2) <=> (/\ ~CachedUnder(cache, K, L)
                                 /\ (q[1][4] = "error" \/ ~HasRow(K, L))
                                 /\ F # L
                                 /\ ~CachedUnder(cache, K, F))
            /\ (Len(q) = 2 /\ q[2][4] = "ok" /\ HasRow(K, F)) =>
                   /\ last'.result = StoredValue(K, F)
                   /\ cache' = _cache_translation(cache, K, F, StoredValue(K, F))
                   /\ ~CachedUnder(cache', K, L)
            /\ (Len(q) = 1 /\ (q[1][4] = "error" \/ ~HasRow(K, L))) => cache' = cache
    ]_vars

\* C23 witness: a call that queried (K, L) and then (K, F) and cached the
\* value under F only.
C23_Witness ==
    /\ last.op = "get_translation"
    /\ Len(last.queries) = 2
    /\ last.queries[1][3] # last.queries[2][3]
    /\ HasRow(last.key, last.queries[2][3])
    /\ last.result = StoredValue(last.key, last.queries[2][3])
    /\ CachedUnder(cache, last.key, last.queries[2][3])
    /\ ~CachedUnder(cache, last.key, last.queries[1][3])

\* C24: no session is open between operations; every call closed as many
\* sessions as it opened, one per query it issued, the queries that raised
\* included; a get_translation that found the key in storage in the
\* requested language opened one session and closed it.
C24_SessionsClosed ==
    /\ open_sessions = 0
    /\ last.opened = last.closed
    /\ last.op \in {"get_translation", "get_translations_by_category"} =>
           last.opened = Len(last.queries)
    /\ (last.op = "get_translation" /\ Len(last.queries) = 1
        /\ last.queries[1][4] = "ok" /\ HasRow(last.key, last.queries[1][3])) =>
           (last.opened = 1 /\ last.closed = 1)

\* C24 witness: a call whose first query raised and whose second found the
\* row closed both sessions.
C24_Witness ==
    /\ last.op = "get_translation"
    /\ Len(last.queries) = 2
    /\ QueryRaised(1)
    /\ last.result # last.key
    /\ last.opened = 2 /\ last.closed = 2
    /\ open_sessions = 0

\* C25: get_translations_by_category(C, L) issues its one query exactly when
\* no key cached under L (zh for an unset or unsupported L) begins with "C.",
\* and an entry of the cache stays until a clear_cache of its language or of
\* everything.
C25_CategoryQueriedWhenUncached ==
    [][/\ last'.op = "get_translations_by_category" =>
            LET L == PrimaryLanguage(last'.language)
                C == last'.category
                some == /\ L \in DOMAIN cache
                        /\ \E k \in DOMAIN cache[L] : Len(k) >= 2 /\ k[1] = C
            IN  IF some
                THEN last'.queries = <<>>
                ELSE /\ Len(last'.queries) = 1
                     /\ last'.queries[1][1] = "category"
                     /\ last'.queries[1][2] = C
                     /\ last'.queries[1][3] = L
       /\ \A l \in DOMAIN cache : \A k \in DOMAIN cache[l] :
            \/ CachedUnder(cache', k, l)
            \/ (last'.op = "clear_cache" /\ last'.language \in {l, None, ""})
    ]_vars

\* C25 witness: a category call answered without a query from a cache that
\* another operation filled: a row of the category was never cached.
C25_Witness ==
    /\ last.op = "get_translations_by_category"
    /\ last.queries = <<>>
    /\ last.result # EmptyDict
    /\ \E r \in storage : /\ r.category = last.category
                          /\ r.language_code = PrimaryLanguage(last.language)
                          /\ r.key \notin DOMAIN last.result

\* C27 as stated: every language that is a key of the cache is a supported one.
C27_AsStated == DOMAIN cache \subseteq SUPPORTED_LANGUAGES

\* C28: no language of the cache has an empty map, and the statistics never
\* report more cached languages than cached translations.
C28_NoEmptyLanguage ==
    /\ \A l \in DOMAIN cache : DOMAIN cache[l] # {}
    /\ last.op = "get_cache_stats" =>
           last.stats.cached_languages <= last.stats.total_cached_translations

\* C28 witness: statistics of a cache that holds one language with one key, the
\* closest the two figures get.
C28_Witness ==
    /\ last.op = "get_cache_stats"
    /\ last.stats.cached_languages = 1
    /\ last.stats.total_cached_translations = 1
    /\ Cardinality(DOMAIN cache) = 1

\* ---------------------------------------------------------------------------
\* the middleware's default and the API's reports
\* ---------------------------------------------------------------------------
\* the Accept-Language header of the request names a supported language
NamesSupportedLanguage ==
    /\ HasAcceptLanguage
    /\ parse_ranges(Split(request.accept_language, ",")) # <<>>

\* C29 as stated: whatever default_language the middleware was given, a
\* request without supported 'lang' parameter and X-Language header whose
\* Accept-Language header names no supported language gets that default, and
\* every effective language is a supported language or that default.
C29_AsStated ==
    request_language # None =>
        /\ (/\ request.lang \notin SUPPORTED_LANGUAGES
            /\ request.x_language \notin SUPPORTED_LANGUAGES
            /\ request.accept_language # PyNone
            /\ ~NamesSupportedLanguage) => request_language = default_language
        /\ request_language \in SUPPORTED_LANGUAGES \cup {default_language}

\* C29 with the default the application configures (zh, the service's own):
\* there the statement holds.
C29_ServiceDefault ==
    (request_language # None /\ default_language = DEFAULT_LANGUAGE) =>
        /\ (/\ request.lang \notin SUPPORTED_LANGUAGES
            /\ request.x_language \notin SUPPORTED_LANGUAGES
            /\ request.accept_language # PyNone
            /\ ~NamesSupportedLanguage) => request_language = default_language
        /\ request_language \in SUPPORTED_LANGUAGES \cup {default_language}

\* a record for the key of the response exists in the request language or in
\* its fallback language
RecordExists ==
    \/ HasRow(response.key, response.language)
    \/ HasRow(response.key, ImplicitFallback(response.language))

\* C26 as stated: GET /i18n/translations/{key} reports found = true exactly
\* when a record for the key exists in the request language or its fallback,
\* and TranslationHelper.translate returns the caller's fallback text only when
\* no such record exists.
C26_AsStated ==
    /\ response.endpoint = "get_translation" => (response.found <=> RecordExists)
    /\ (response.endpoint = "translate" /\ response.value = response.fallback) => ~RecordExists

\* what the code computes instead: found says that the text returned differs
\* from the key, and the fallback text is returned exactly when it does not.
C26_FoundIsDifference ==
    /\ response.endpoint = "get_translation" =>
           /\ response.value = last.result
           /\ response.found <=> (last.result # response.key)
    /\ response.endpoint = "translate" =>
           (response.value = response.fallback) <=> (last.result = response.key)

\* the source the middleware took the language of the request from
DecidingSource ==
    IF request.lang \in SUPPORTED_LANGUAGES THEN "query_parameter"
    ELSE IF request.x_language \in SUPPORTED_LANGUAGES THEN "custom_header"
    ELSE IF HasAcceptLanguage THEN "accept_language_header"
    ELSE "default"

\* C30 as stated: the detection_method of GET /i18n/language/current names the
\* source the middleware took the language from.
C30_AsStated ==
    response.endpoint = "get_current_language" => response.detection_method = DecidingSource

====
